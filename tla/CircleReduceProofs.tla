-------------------------- MODULE CircleReduceProofs --------------------------
(* Theorems about CircleReduce, for every tree of ranks and any number of    *)
(* objects and reductions: these do not mix, though ranks read their counts  *)
(* at different times and may leave the work loop in the middle of one, and  *)
(* the last sum that the root prints has all.                                *)
EXTENDS CircleReduce, SequenceTheorems, FiniteSetTheorems, TLAPS

-----------------------------------------------------------------------------
(* Sums                                                                      *)

\* What SumOver counts.
Units(f, S) == UNION {{x} \X (1 .. f[x]) : x \in S}

LEMMA UnitsOf ==
    ASSUME NEW f, NEW S, NEW y
    PROVE  y \in Units(f, S) <=> \E x \in S : \E i \in 1 .. f[x] : y = <<x, i>>
BY DEF Units

LEMMA UnitsFinite ==
    ASSUME NEW S, IsFiniteSet(S), NEW f, \A x \in S : f[x] \in Nat
    PROVE  IsFiniteSet(Units(f, S)) /\ SumOver(f, S) \in Nat
<1> DEFINE T == {{x} \X (1 .. f[x]) : x \in S}
           g == [x \in S |-> {x} \X (1 .. f[x])]
<1>1. IsFiniteSet(T)
  <2>1. g \in Surjection(S, T)
    BY DEF Surjection
  <2> QED
    BY <2>1, FS_Surjection
<1>2. \A t \in T : IsFiniteSet(t)
  <2> SUFFICES ASSUME NEW x \in S
               PROVE  IsFiniteSet({x} \X (1 .. f[x]))
    OBVIOUS
  <2>1. IsFiniteSet({x})
    BY FS_Singleton
  <2>2. IsFiniteSet(1 .. f[x])
    BY FS_Interval
  <2> QED
    BY <2>1, <2>2, FS_Product
<1>3. IsFiniteSet(Units(f, S))
  BY <1>1, <1>2, FS_UNION DEF Units
<1> QED
  BY <1>3, FS_CardinalityType DEF SumOver, Units

\* Sums over sets that are apart add up.
LEMMA SumSplit ==
    ASSUME NEW A, NEW B, IsFiniteSet(A), IsFiniteSet(B), A \cap B = {},
           NEW f, \A x \in A \cup B : f[x] \in Nat
    PROVE  SumOver(f, A \cup B) = SumOver(f, A) + SumOver(f, B)
<1>1. IsFiniteSet(Units(f, A)) /\ IsFiniteSet(Units(f, B))
  BY UnitsFinite
<1>2. Units(f, A \cup B) = Units(f, A) \cup Units(f, B)
  BY UnitsOf
<1>3. Units(f, A) \cap Units(f, B) = {}
  BY UnitsOf
<1>4. /\ Cardinality(Units(f, A)) \in Nat /\ Cardinality(Units(f, B)) \in Nat
  BY <1>1, FS_CardinalityType
<1>5. Cardinality(Units(f, A) \cup Units(f, B)) = Cardinality(Units(f, A)) + Cardinality(Units(f, B))
  <2>1. Cardinality(Units(f, A) \cup Units(f, B)) =
            Cardinality(Units(f, A)) + Cardinality(Units(f, B)) - Cardinality({})
    BY <1>1, <1>3, FS_Union
  <2> QED
    BY <1>4, <2>1, FS_EmptySet
<1> QED
  BY <1>2, <1>5 DEF SumOver, Units

LEMMA SumOne ==
    ASSUME NEW x, NEW f, f[x] \in Nat
    PROVE  SumOver(f, {x}) = f[x]
<1>1. Units(f, {x}) = {x} \X (1 .. f[x])
  BY DEF Units
<1>2. /\ IsFiniteSet({x}) /\ Cardinality({x}) = 1
      /\ IsFiniteSet(1 .. f[x]) /\ Cardinality(1 .. f[x]) = f[x]
  <2>1. IsFiniteSet({x}) /\ Cardinality({x}) = 1
    BY FS_Singleton
  <2>2. IsFiniteSet(1 .. f[x]) /\ Cardinality(1 .. f[x]) = IF 1 > f[x] THEN 0 ELSE f[x] - 1 + 1
    BY FS_Interval
  <2> QED
    BY <2>1, <2>2
<1>3. Cardinality({x} \X (1 .. f[x])) = 1 * f[x]
  <2>1. PICK A : A = {x}
    OBVIOUS
  <2>2. PICK B : B = 1 .. f[x]
    OBVIOUS
  <2>3. /\ IsFiniteSet(A) /\ Cardinality(A) = 1
        /\ IsFiniteSet(B) /\ Cardinality(B) = f[x]
    BY <1>2, <2>1, <2>2
  <2>4. Cardinality(A \X B) = Cardinality(A) * Cardinality(B)
    BY <2>3, FS_Product
  <2> QED
    BY <2>1, <2>2, <2>3, <2>4
<1> QED
  BY <1>1, <1>3 DEF SumOver, Units

LEMMA SumSame ==
    ASSUME NEW S, NEW f, NEW g, \A x \in S : f[x] = g[x]
    PROVE  SumOver(f, S) = SumOver(g, S)
<1>1. Units(f, S) = Units(g, S)
  BY DEF Units
<1> QED
  BY <1>1 DEF SumOver, Units

LEMMA SumZero ==
    ASSUME NEW S, NEW f, \A x \in S : f[x] = 0
    PROVE  SumOver(f, S) = 0
<1>1. Units(f, S) = {}
  BY UnitsOf
<1> QED
  BY <1>1, FS_EmptySet DEF SumOver, Units

LEMMA SumLess ==
    ASSUME NEW S, IsFiniteSet(S), NEW f, NEW g,
           \A x \in S : f[x] \in Nat /\ g[x] \in Nat /\ f[x] <= g[x]
    PROVE  SumOver(f, S) <= SumOver(g, S)
<1>1. Units(f, S) \subseteq Units(g, S)
  BY UnitsOf
<1>2. IsFiniteSet(Units(g, S))
  BY UnitsFinite
<1> QED
  BY <1>1, <1>2, FS_Subset DEF SumOver, Units

\* One more in the set.
LEMMA SumWith ==
    ASSUME NEW S, IsFiniteSet(S), NEW r, r \notin S, NEW f, \A x \in S \cup {r} : f[x] \in Nat
    PROVE  SumOver(f, S \cup {r}) = SumOver(f, S) + f[r]
<1>1. SumOver(f, S \cup {r}) = SumOver(f, S) + SumOver(f, {r})
  <2>1. IsFiniteSet({r}) /\ S \cap {r} = {}
    BY FS_Singleton
  <2> QED
    BY <2>1, SumSplit
<1> QED
  BY <1>1, SumOne

\* What r takes from those in Q stays in the sum, and what it adds is added.
LEMMA SumMoves ==
    ASSUME NEW S, IsFiniteSet(S), NEW f, NEW g, \A x \in S : f[x] \in Nat /\ g[x] \in Nat,
           NEW r \in S, NEW Q \in SUBSET S, r \notin Q, NEW k \in Nat,
           g[r] = f[r] + SumOver(f, Q) + k, \A x \in Q : g[x] = 0,
           \A x \in S \ (Q \cup {r}) : g[x] = f[x]
    PROVE  SumOver(g, S) = SumOver(f, S) + k
<1> DEFINE R == S \ (Q \cup {r})
<1>1. IsFiniteSet(Q) /\ IsFiniteSet(R) /\ IsFiniteSet(Q \cup R)
  BY FS_Subset
<1>2. S = (Q \cup R) \cup {r} /\ r \notin Q \cup R /\ Q \cap R = {}
  OBVIOUS
<1>8. \A x \in (Q \cup R) \cup {r} : f[x] \in Nat /\ g[x] \in Nat
  OBVIOUS
<1> HIDE DEF R
<1>3. SumOver(f, S) = SumOver(f, Q) + SumOver(f, R) + f[r]
  <2>1. SumOver(f, (Q \cup R) \cup {r}) = SumOver(f, Q \cup R) + f[r]
    BY <1>1, <1>2, <1>8, SumWith
  <2>2. SumOver(f, Q \cup R) = SumOver(f, Q) + SumOver(f, R)
    BY <1>1, <1>2, <1>8, SumSplit
  <2> QED
    BY <1>2, <2>1, <2>2
<1>4. SumOver(g, S) = SumOver(g, Q) + SumOver(g, R) + g[r]
  <2>1. SumOver(g, (Q \cup R) \cup {r}) = SumOver(g, Q \cup R) + g[r]
    BY <1>1, <1>2, <1>8, SumWith
  <2>2. SumOver(g, Q \cup R) = SumOver(g, Q) + SumOver(g, R)
    BY <1>1, <1>2, <1>8, SumSplit
  <2> QED
    BY <1>2, <2>1, <2>2
<1>5. SumOver(g, Q) = 0
  BY SumZero
<1>6. SumOver(g, R) = SumOver(f, R)
  BY SumSame DEF R
<1>7. /\ SumOver(f, Q) \in Nat /\ SumOver(f, R) \in Nat /\ f[r] \in Nat
  BY <1>1, <1>2, UnitsFinite
<1> QED
  BY <1>3, <1>4, <1>5, <1>6, <1>7

-----------------------------------------------------------------------------
(* The tree of ranks and the types                                           *)

\* A rank is past the barrier, or has told its parent that it has come to it.
Past(r) == loop[r] \in {"sync", "done"}
Ready(r) == met[r].up \/ Past(r)

\* The children whose answers a rank has, in a reduction and in the last one.
Heard(p) == {c \in Children(p) : requests[c] = 0 /\ ~outstanding[c] /\ sent[c] = <<>>}
Ended(p) == {c \in Children(p) : loop[c] = "done" /\ sent[c] = <<>>}
Came(p) == {c \in Children(p) : Ready(c) /\ ~arrived[c]}

Numbers == [replies : Nat, valid : BOOLEAN, total : Nat, user : Nat]

SumTypes ==
    /\ loop \in [Procs -> {"work", "cleanup", "sync", "done"}]
    /\ objects \in [Procs -> Nat] /\ unworked \in Nat
    /\ outstanding \in [Procs -> BOOLEAN] /\ sum \in [Procs -> Numbers]
    /\ requests \in [Procs -> Nat] /\ sent \in [Procs -> Seq(Numbers)]
    /\ met \in [Procs -> [replies : Nat, up : BOOLEAN]]
    /\ arrived \in [Procs -> BOOLEAN] /\ released \in [Procs -> BOOLEAN]
    /\ starts \in Nat /\ printed \in Seq(Numbers)

\* What is so of the root, and of a child if it is so of its parent, is so of all.
LEMMA FromTop ==
    ASSUME TreeAssumption, NEW S \in SUBSET Procs, Top \in S,
           \A r \in Procs \ {Top} : ParentOf[r] \in S => r \in S
    PROVE  S = Procs
BY DEF TreeAssumption

LEMMA ChildrenOf ==
    ASSUME TreeAssumption, NEW r \in Procs
    PROVE  /\ r \notin Children(r) /\ Top \notin Children(r) /\ Children(r) \subseteq Procs
           /\ IsFiniteSet(Children(r)) /\ Expected(r) \in Nat
           /\ \A c : c \in Children(r) <=> c \in Procs \ {Top} /\ ParentOf[c] = r
<1>1. /\ Top \notin Children(r) /\ Children(r) \subseteq Procs
      /\ \A c : c \in Children(r) <=> c \in Procs \ {Top} /\ ParentOf[c] = r
  BY DEF Children
<1>2. IsFiniteSet(Children(r)) /\ Expected(r) \in Nat
  <2>1. IsFiniteSet(Children(r))
    BY <1>1, FS_Subset DEF TreeAssumption
  <2> QED
    BY <2>1, FS_CardinalityType DEF Expected
<1>3. r \notin Children(r)
  <2> SUFFICES ASSUME r \in Procs \ {Top}, ParentOf[r] = r
               PROVE  FALSE
    BY <1>1
  <2>1. Procs \ {r} = Procs
    <3>1. Top \in Procs \ {r}
      BY DEF TreeAssumption
    <3>2. \A q \in Procs \ {Top} : ParentOf[q] \in Procs \ {r} => q \in Procs \ {r}
      OBVIOUS
    <3> QED
      BY <3>1, <3>2, FromTop
  <2> QED
    BY <2>1
<1> QED
  BY <1>1, <1>2, <1>3

LEMMA SomeChildren ==
    ASSUME TreeAssumption, NEW r \in Procs, NEW Q, Q \subseteq Children(r)
    PROVE  IsFiniteSet(Q) /\ Cardinality(Q) \in Nat /\ Cardinality(Q) <= Expected(r)
           /\ (Cardinality(Q) = Expected(r) => Q = Children(r))
<1>1. IsFiniteSet(Children(r))
  BY ChildrenOf
<1>2. IsFiniteSet(Q) /\ Cardinality(Q) <= Cardinality(Children(r))
      /\ (Cardinality(Children(r)) = Cardinality(Q) => Children(r) = Q)
  BY <1>1, FS_Subset
<1> QED
  BY <1>2, FS_CardinalityType DEF Expected

\* A rank takes what some of its children have sent.
LEMMA TakenUp ==
    ASSUME TreeAssumption, SumTypes, NEW r \in Procs, NEW seen \in SUBSET Children(r),
           \A c \in seen : sent[c] # <<>>
    PROVE  /\ With(r, seen) \in Numbers
           /\ With(r, seen).replies = sum[r].replies + Cardinality(seen)
           /\ With(r, seen).valid <=> sum[r].valid /\ \A c \in seen : Head(sent[c]).valid
           /\ With(r, seen).valid =>
                 /\ With(r, seen).total = sum[r].total + Total(seen)
                 /\ With(r, seen).user = sum[r].user + UserTotal(seen)
           /\ Cardinality(seen) \in Nat /\ Total(seen) \in Nat /\ UserTotal(seen) \in Nat
<1> DEFINE T == [c \in seen |-> Head(sent[c]).total]
           U == [c \in seen |-> Head(sent[c]).user]
<1>1. IsFiniteSet(seen) /\ Cardinality(seen) \in Nat
  BY SomeChildren
<1>2. \A c \in seen : Head(sent[c]) \in Numbers
  <2> SUFFICES ASSUME NEW c \in seen
               PROVE  Head(sent[c]) \in Numbers
    OBVIOUS
  <2>1. sent[c] \in Seq(Numbers) /\ sent[c] # <<>>
    BY ChildrenOf DEF SumTypes
  <2> QED
    BY <2>1, HeadTailProperties
<1>3. \A c \in seen : T[c] \in Nat /\ U[c] \in Nat /\ Head(sent[c]).valid \in BOOLEAN
  BY <1>2 DEF Numbers
<1>4. SumOver(T, seen) \in Nat /\ SumOver(U, seen) \in Nat
  <2> HIDE DEF T, U
  <2> QED
    BY <1>1, <1>3, UnitsFinite
<1>5. Total(seen) \in Nat /\ UserTotal(seen) \in Nat
  BY <1>4 DEF Total, UserTotal
<1>6. /\ sum[r].replies \in Nat /\ sum[r].total \in Nat /\ sum[r].user \in Nat
      /\ sum[r].valid \in BOOLEAN
  BY DEF SumTypes, Numbers
<1>7. CASE sum[r].valid /\ \A c \in seen : Head(sent[c]).valid
  <2>1. With(r, seen) = [replies |-> sum[r].replies + Cardinality(seen), valid |-> TRUE,
                         total |-> sum[r].total + Total(seen),
                         user |-> sum[r].user + UserTotal(seen)]
    BY <1>7 DEF With
  <2> QED
    BY <1>1, <1>5, <1>6, <1>7, <2>1 DEF Numbers
<1>8. CASE ~(sum[r].valid /\ \A c \in seen : Head(sent[c]).valid)
  <2>1. With(r, seen) = [replies |-> sum[r].replies + Cardinality(seen), valid |-> FALSE,
                         total |-> 0, user |-> 0]
    BY <1>8 DEF With, Invalid
  <2> QED
    BY <1>1, <1>5, <1>6, <1>8, <2>1 DEF Numbers
<1> QED
  BY <1>7, <1>8

-----------------------------------------------------------------------------
(* What the calls do, rank by rank                                           *)

LEMMA StartEffect ==
    ASSUME TreeAssumption, SumTypes, NEW r \in Procs, StartReduce(r)
    PROVE  /\ loop[r] = "work" /\ ~outstanding[r] /\ (r # Top => requests[r] > 0)
           /\ outstanding' = [outstanding EXCEPT ![r] = TRUE]
           /\ sum' = [sum EXCEPT ![r] = Fresh(0, objects[r])] /\ Fresh(0, objects[r]) \in Numbers
           /\ requests' \in [Procs -> Nat]
           /\ \A p \in Procs : requests'[p] = IF p = r THEN IF r = Top THEN requests[p]
                                                                       ELSE requests[p] - 1
                                              ELSE IF p \in Children(r) THEN requests[p] + 1
                                              ELSE requests[p]
           /\ starts' \in Nat
           /\ UNCHANGED <<loop, objects, unworked, sent, printed, met, arrived, released>>
<1>1. /\ requests' = [p \in Procs |-> requests[p] - (IF p = r /\ r # Top THEN 1 ELSE 0)
                                      + (IF TRUE /\ p \in Children(r) THEN 1 ELSE 0)]
      /\ UNCHANGED <<loop, objects, unworked, sent, printed, met, arrived, released>>
      /\ starts' \in Nat
      /\ loop[r] = "work" /\ ~outstanding[r] /\ (r # Top => requests[r] > 0)
  BY DEF StartReduce, Asks, barrier, SumTypes
<1>2. \A p \in Procs : requests[p] \in Nat /\ requests'[p] =
          IF p = r THEN IF r = Top THEN requests[p] ELSE requests[p] - 1
          ELSE IF p \in Children(r) THEN requests[p] + 1 ELSE requests[p]
  BY <1>1, ChildrenOf DEF SumTypes
<1>3. requests' \in [Procs -> Nat]
  BY <1>1, <1>2
<1>4. Fresh(0, objects[r]) \in Numbers
  BY DEF Fresh, Numbers, SumTypes
<1> QED
  BY <1>1, <1>2, <1>3, <1>4 DEF StartReduce

LEMMA DeclineEffect ==
    ASSUME TreeAssumption, SumTypes, NEW r \in Procs, Decline(r)
    PROVE  /\ loop[r] = "cleanup" /\ ~outstanding[r] /\ r # Top /\ requests[r] > 0
           /\ requests' \in [Procs -> Nat]
           /\ \A p \in Procs : requests'[p] = IF p = r THEN requests[p] - 1 ELSE requests[p]
           /\ sent' = [sent EXCEPT ![r] = sent[r] \o <<Invalid(0)>>] /\ Invalid(0) \in Numbers
           /\ UNCHANGED <<loop, objects, unworked, outstanding, sum, starts, printed, met,
                          arrived, released>>
<1>1. /\ requests' = [p \in Procs |-> requests[p] - (IF p = r /\ TRUE THEN 1 ELSE 0)
                                      + (IF FALSE /\ p \in Children(r) THEN 1 ELSE 0)]
      /\ sent' = [p \in Procs |-> IF p \in {} THEN Tail(sent[p])
                                  ELSE IF p = r THEN sent[p] \o <<Invalid(0)>> ELSE sent[p]]
      /\ loop[r] = "cleanup" /\ ~outstanding[r] /\ r # Top /\ requests[r] > 0
      /\ UNCHANGED <<loop, objects, unworked, outstanding, sum, starts, printed, met,
                     arrived, released>>
  BY DEF Decline, Asks, Sends, barrier
<1>2. \A p \in Procs : requests[p] \in Nat
          /\ requests'[p] = IF p = r THEN requests[p] - 1 ELSE requests[p]
  BY <1>1 DEF SumTypes
<1>3. requests' \in [Procs -> Nat]
  BY <1>1, <1>2
<1>4. sent' = [sent EXCEPT ![r] = sent[r] \o <<Invalid(0)>>]
  BY <1>1 DEF SumTypes
<1>5. Invalid(0) \in Numbers
  BY DEF Invalid, Numbers
<1> QED
  BY <1>1, <1>2, <1>3, <1>4, <1>5

\* What a rank sends, and takes of what its children have sent.
LEMMA SendsEffect ==
    ASSUME SumTypes, NEW r, NEW seen, \A c \in seen : sent[c] # <<>>,
           NEW messages, messages \in Seq(Numbers), Sends(r, seen, messages)
    PROVE  /\ sent' \in [Procs -> Seq(Numbers)]
           /\ \A p \in Procs : sent'[p] = IF p \in seen THEN Tail(sent[p])
                                          ELSE IF p = r THEN sent[p] \o messages ELSE sent[p]
<1>1. sent' = [p \in Procs |-> IF p \in seen THEN Tail(sent[p])
                               ELSE IF p = r THEN sent[p] \o messages ELSE sent[p]]
  BY DEF Sends
<1>2. ASSUME NEW p \in Procs
      PROVE  (IF p \in seen THEN Tail(sent[p])
              ELSE IF p = r THEN sent[p] \o messages ELSE sent[p]) \in Seq(Numbers)
  <2>1. sent[p] \in Seq(Numbers) /\ (p \in seen => sent[p] # <<>>)
    BY DEF SumTypes
  <2>2. p \in seen => Tail(sent[p]) \in Seq(Numbers)
    BY <2>1, HeadTailProperties
  <2>3. sent[p] \o messages \in Seq(Numbers)
    BY <2>1, ConcatProperties
  <2> QED
    BY <2>1, <2>2, <2>3
<1> QED
  BY <1>1, <1>2

\* What Reduce does with what it has seen: it goes on waiting, or it ends the
\* reduction of its part of the tree.
Waits(r, seen) ==
    /\ seen # {} /\ With(r, seen).replies < Expected(r)
    /\ sum' = [sum EXCEPT ![r] = With(r, seen)]
    /\ \A p \in Procs : sent'[p] = IF p \in seen THEN Tail(sent[p]) ELSE sent[p]
    /\ UNCHANGED <<outstanding, printed>>
OwnSum(r, seen) ==
    [With(r, seen) EXCEPT !.total = IF With(r, seen).valid THEN @ + objects[r] ELSE @]
SendsUp(r, seen) ==
    /\ With(r, seen).replies = Expected(r)
    /\ outstanding' = [outstanding EXCEPT ![r] = FALSE]
    /\ sum' = [sum EXCEPT ![r] = Fresh(0, 0)]
    /\ \A p \in Procs : sent'[p] = IF p \in seen THEN Tail(sent[p])
                                   ELSE IF p = r /\ r # Top THEN sent[p] \o <<OwnSum(r, seen)>>
                                   ELSE sent[p]
    /\ printed' = IF r = Top /\ OwnSum(r, seen).valid THEN Append(printed, OwnSum(r, seen))
                  ELSE printed

LEMMA ReduceEffect ==
    ASSUME TreeAssumption, SumTypes, NEW r \in Procs, Reduce(r)
    PROVE  /\ loop[r] \in {"work", "cleanup"} /\ outstanding[r]
           /\ sent' \in [Procs -> Seq(Numbers)]
           /\ \E seen \in SUBSET Children(r) :
                 /\ \A c \in seen : sent[c] # <<>>
                 /\ OwnSum(r, seen) \in Numbers
                 /\ Waits(r, seen) \/ SendsUp(r, seen)
           /\ UNCHANGED <<loop, objects, unworked, requests, starts, met, arrived, released>>
<1>1. /\ loop[r] \in {"work", "cleanup"} /\ outstanding[r]
      /\ UNCHANGED <<loop, objects, unworked, requests, starts, met, arrived, released>>
  BY DEF Reduce, barrier
<1>2. PICK seen \in SUBSET {c \in Children(r) : sent[c] # <<>>} :
          \/ /\ seen # {} /\ With(r, seen).replies < Expected(r)
             /\ sum' = [sum EXCEPT ![r] = With(r, seen)]
             /\ Sends(r, seen, <<>>)
             /\ UNCHANGED <<outstanding, printed>>
          \/ /\ With(r, seen).replies = Expected(r)
             /\ outstanding' = [outstanding EXCEPT ![r] = FALSE]
             /\ sum' = [sum EXCEPT ![r] = Fresh(0, 0)]
             /\ Sends(r, seen, IF r = Top THEN <<>> ELSE <<OwnSum(r, seen)>>)
             /\ printed' = IF r = Top /\ OwnSum(r, seen).valid
                           THEN Append(printed, OwnSum(r, seen)) ELSE printed
  BY DEF Reduce, OwnSum
<1>3. seen \in SUBSET Children(r) /\ \A c \in seen : sent[c] # <<>>
  OBVIOUS
<1>4. OwnSum(r, seen) \in Numbers
  <2>1. With(r, seen) \in Numbers /\ objects[r] \in Nat
    BY <1>3, TakenUp DEF SumTypes
  <2> QED
    BY <2>1 DEF OwnSum, Numbers
<1>5. /\ <<>> \in Seq(Numbers) /\ <<OwnSum(r, seen)>> \in Seq(Numbers)
      /\ \A p \in Procs : sent[p] \o <<>> = sent[p]
  <2>1. \A p \in Procs : sent[p] \in Seq(Numbers)
    BY DEF SumTypes
  <2> QED
    BY <1>4, <2>1, ConcatEmptySeq
<1>6. CASE /\ seen # {} /\ With(r, seen).replies < Expected(r)
           /\ sum' = [sum EXCEPT ![r] = With(r, seen)]
           /\ Sends(r, seen, <<>>)
           /\ UNCHANGED <<outstanding, printed>>
  <2>1. /\ sent' \in [Procs -> Seq(Numbers)]
        /\ \A p \in Procs : sent'[p] = IF p \in seen THEN Tail(sent[p])
                                       ELSE IF p = r THEN sent[p] \o <<>> ELSE sent[p]
    BY <1>3, <1>5, <1>6, SendsEffect
  <2> QED
    BY <1>1, <1>3, <1>4, <1>5, <1>6, <2>1 DEF Waits
<1>7. CASE /\ With(r, seen).replies = Expected(r)
           /\ outstanding' = [outstanding EXCEPT ![r] = FALSE]
           /\ sum' = [sum EXCEPT ![r] = Fresh(0, 0)]
           /\ Sends(r, seen, IF r = Top THEN <<>> ELSE <<OwnSum(r, seen)>>)
           /\ printed' = IF r = Top /\ OwnSum(r, seen).valid
                         THEN Append(printed, OwnSum(r, seen)) ELSE printed
  <2>5. PICK m : m = IF r = Top THEN <<>> ELSE <<OwnSum(r, seen)>>
    OBVIOUS
  <2>1. m \in Seq(Numbers) /\ Sends(r, seen, m)
    BY <1>5, <1>7, <2>5
  <2>2. /\ sent' \in [Procs -> Seq(Numbers)]
        /\ \A p \in Procs : sent'[p] = IF p \in seen THEN Tail(sent[p])
                                       ELSE IF p = r THEN sent[p] \o m ELSE sent[p]
    BY <1>3, <2>1, SendsEffect
  <2>3. \A p \in Procs : sent'[p] = IF p \in seen THEN Tail(sent[p])
                                    ELSE IF p = r /\ r # Top THEN sent[p] \o <<OwnSum(r, seen)>>
                                    ELSE sent[p]
    BY <1>5, <2>2, <2>5
  <2>4. SendsUp(r, seen)
    BY <1>7, <2>3 DEF SendsUp
  <2> QED
    BY <1>1, <1>3, <1>4, <2>2, <2>4
<1> QED
  BY <1>2, <1>6, <1>7

\* What a rank does in the barrier: it hears a child, or tells its parent, or both, or
\* it passes.
Hears(r, heard, all, up) ==
    /\ heard # {} \/ up
    /\ r = Top => ~all
    /\ met' = [met EXCEPT ![r] = [replies |-> met[r].replies + Cardinality(heard), up |-> all]]
    /\ UNCHANGED <<loop, sum, released>>
Passes(r, all, up) ==
    /\ all /\ ~up /\ (r = Top \/ released[r])
    /\ met' = [met EXCEPT ![r] = [replies |-> 0, up |-> FALSE]]
    /\ released' = [p \in Procs |-> (released[p] /\ p # r) \/ p \in Children(r)]
    /\ loop' = [loop EXCEPT ![r] = "sync"]
    /\ sum' = [sum EXCEPT ![r] = Fresh(objects[r], objects[r])]

LEMMA BarrierEffect ==
    ASSUME TreeAssumption, SumTypes, NEW r \in Procs, BarrierTest(r)
    PROVE  /\ loop[r] = "cleanup" /\ ~outstanding[r]
           /\ \E heard \in SUBSET {c \in Children(r) : arrived[c]}, all, up \in BOOLEAN :
                 /\ Cardinality(heard) \in Nat /\ IsFiniteSet(heard)
                 /\ all <=> met[r].replies + Cardinality(heard) = Expected(r)
                 /\ up <=> all /\ r # Top /\ ~met[r].up
                 /\ arrived' = [p \in Procs |-> (arrived[p] /\ p \notin heard) \/ (p = r /\ up)]
                 /\ Hears(r, heard, all, up) \/ Passes(r, all, up)
           /\ UNCHANGED <<objects, unworked, outstanding, requests, sent, starts, printed>>
<1>1. /\ loop[r] = "cleanup" /\ ~outstanding[r]
      /\ UNCHANGED <<objects, unworked, outstanding, requests, sent, starts, printed>>
  BY DEF BarrierTest, MayMeet
<1>2. PICK heard \in SUBSET {c \in Children(r) : arrived[c]} :
          LET replies == met[r].replies + Cardinality(heard)
              all == replies = Expected(r)
              up == all /\ r # Top /\ ~met[r].up
          IN  /\ Cardinality(heard) <= 1
              /\ arrived' = [p \in Procs |-> (arrived[p] /\ p \notin heard) \/ (p = r /\ up)]
              /\ \/ /\ heard # {} \/ up
                    /\ r = Top => ~all
                    /\ met' = [met EXCEPT ![r] = [replies |-> replies, up |-> all]]
                    /\ UNCHANGED <<loop, sum, released>>
                 \/ /\ all /\ ~up /\ (r = Top \/ released[r])
                    /\ met' = [met EXCEPT ![r] = [replies |-> 0, up |-> FALSE]]
                    /\ released' = [p \in Procs |-> (released[p] /\ p # r) \/ p \in Children(r)]
                    /\ loop' = [loop EXCEPT ![r] = "sync"]
                    /\ sum' = [sum EXCEPT ![r] = Fresh(objects[r], objects[r])]
  BY DEF BarrierTest
<1> DEFINE all == met[r].replies + Cardinality(heard) = Expected(r)
           up == all /\ r # Top /\ ~met[r].up
<1>3. all \in BOOLEAN /\ up \in BOOLEAN
  OBVIOUS
<1>4. arrived' = [p \in Procs |-> (arrived[p] /\ p \notin heard) \/ (p = r /\ up)]
  BY <1>2
<1>5. Hears(r, heard, all, up) \/ Passes(r, all, up)
  BY <1>2 DEF Hears, Passes
<1>6. Cardinality(heard) \in Nat /\ IsFiniteSet(heard)
  BY SomeChildren
<1>7. /\ all <=> met[r].replies + Cardinality(heard) = Expected(r)
      /\ up <=> all /\ r # Top /\ ~met[r].up
  OBVIOUS
<1> HIDE DEF all, up
<1> QED
  BY <1>1, <1>3, <1>4, <1>5, <1>6, <1>7

LEMMA SyncReceiveEffect ==
    ASSUME TreeAssumption, SumTypes, NEW r \in Procs, SyncReceive(r)
    PROVE  /\ loop[r] = "sync"
           /\ sent' \in [Procs -> Seq(Numbers)]
           /\ \E c \in Children(r) :
                 /\ sent[c] # <<>> /\ Head(sent[c]).valid
                 /\ sum' = [sum EXCEPT ![r] = With(r, {c})] /\ With(r, {c}) \in Numbers
                 /\ \A p \in Procs : sent'[p] = IF p = c THEN Tail(sent[p]) ELSE sent[p]
           /\ UNCHANGED <<loop, objects, unworked, outstanding, requests, starts, printed, met,
                          arrived, released>>
<1>1. /\ loop[r] = "sync"
      /\ UNCHANGED <<loop, objects, unworked, outstanding, requests, starts, printed, met,
                     arrived, released>>
  BY DEF SyncReceive, barrier
<1>2. PICK c \in Children(r) :
          /\ sent[c] # <<>> /\ Head(sent[c]).valid
          /\ sum' = [sum EXCEPT ![r] = With(r, {c})]
          /\ Sends(r, {c}, <<>>)
  BY DEF SyncReceive
<1>8. PICK Q : Q = {c}
  OBVIOUS
<1>3. Q \in SUBSET Children(r) /\ (\A x \in Q : sent[x] # <<>>) /\ Sends(r, Q, <<>>)
  BY <1>2, <1>8
<1>4. With(r, {c}) \in Numbers
  BY <1>3, <1>8, TakenUp
<1>5. /\ sent' \in [Procs -> Seq(Numbers)]
      /\ \A p \in Procs : sent'[p] = IF p \in Q THEN Tail(sent[p])
                                     ELSE IF p = r THEN sent[p] \o <<>> ELSE sent[p]
  <2>1. <<>> \in Seq(Numbers)
    OBVIOUS
  <2> QED
    BY <1>3, <2>1, SendsEffect
<1>6. \A p \in Procs : sent[p] \o <<>> = sent[p]
  <2>1. \A p \in Procs : sent[p] \in Seq(Numbers)
    BY DEF SumTypes
  <2> QED
    BY <2>1, ConcatEmptySeq
<1>7. \A p \in Procs : sent'[p] = IF p = c THEN Tail(sent[p]) ELSE sent[p]
  BY <1>5, <1>6, <1>8
<1> QED
  BY <1>1, <1>2, <1>4, <1>5, <1>7

LEMMA SyncSendEffect ==
    ASSUME TreeAssumption, SumTypes, NEW r \in Procs, SyncSend(r)
    PROVE  /\ loop[r] = "sync" /\ sum[r].replies = Expected(r)
           /\ loop' = [loop EXCEPT ![r] = "done"]
           /\ sent' \in [Procs -> Seq(Numbers)]
           /\ \A p \in Procs : sent'[p] = IF p = r /\ r # Top THEN sent[p] \o <<sum[r]>>
                                          ELSE sent[p]
           /\ printed' = IF r = Top THEN Append(printed, sum[r]) ELSE printed
           /\ UNCHANGED <<objects, unworked, outstanding, sum, requests, starts, met, arrived,
                          released>>
<1>7. PICK m : m = IF r = Top THEN <<>> ELSE <<sum[r]>>
  OBVIOUS
<1>1. /\ loop[r] = "sync" /\ sum[r].replies = Expected(r)
      /\ loop' = [loop EXCEPT ![r] = "done"]
      /\ printed' = IF r = Top THEN Append(printed, sum[r]) ELSE printed
      /\ UNCHANGED <<objects, unworked, outstanding, sum, requests, starts, met, arrived,
                     released>>
  BY DEF SyncSend, barrier
<1>2. m \in Seq(Numbers) /\ Sends(r, {}, m)
  <2>1. sum[r] \in Numbers
    BY DEF SumTypes
  <2> QED
    BY <1>7, <2>1 DEF SyncSend
<1>8. PICK Q : Q = {}
  OBVIOUS
<1>3. Sends(r, Q, m) /\ \A c \in Q : sent[c] # <<>>
  BY <1>2, <1>8
<1>4. /\ sent' \in [Procs -> Seq(Numbers)]
      /\ \A p \in Procs : sent'[p] = IF p \in Q THEN Tail(sent[p])
                                     ELSE IF p = r THEN sent[p] \o m ELSE sent[p]
  BY <1>2, <1>3, SendsEffect
<1>5. \A p \in Procs : sent[p] \o <<>> = sent[p]
  <2>1. \A p \in Procs : sent[p] \in Seq(Numbers)
    BY DEF SumTypes
  <2> QED
    BY <2>1, ConcatEmptySeq
<1>6. \A p \in Procs : sent'[p] = IF p = r /\ r # Top THEN sent[p] \o <<sum[r]>> ELSE sent[p]
  BY <1>4, <1>5, <1>7, <1>8
<1> QED
  BY <1>1, <1>4, <1>6

-----------------------------------------------------------------------------
(* Types                                                                     *)

LEMMA SumTypesInit == ASSUME TreeAssumption, SumInit PROVE SumTypes
BY DEF SumInit, SumTypes, Fresh, Numbers, TreeAssumption

LEMMA SumTypesNext ==
    ASSUME TreeAssumption, SumTypes, NEW r \in Procs,
           \/ Process(r) \/ Leave(r) \/ StartReduce(r) \/ Decline(r) \/ Reduce(r)
           \/ BarrierTest(r) \/ SyncReceive(r) \/ SyncSend(r)
    PROVE  SumTypes'
<1>1. CASE Process(r)
  BY <1>1 DEF Process, SumTypes, reduction, barrier
<1>2. CASE Leave(r)
  BY <1>2 DEF Leave, SumTypes, reduction, barrier
<1>3. CASE StartReduce(r)
  <2>1. /\ outstanding' = [outstanding EXCEPT ![r] = TRUE]
        /\ sum' = [sum EXCEPT ![r] = Fresh(0, objects[r])] /\ Fresh(0, objects[r]) \in Numbers
        /\ requests' \in [Procs -> Nat] /\ starts' \in Nat
        /\ UNCHANGED <<loop, objects, unworked, sent, printed, met, arrived, released>>
    BY <1>3, StartEffect
  <2> QED
    BY <2>1 DEF SumTypes
<1>4. CASE Decline(r)
  <2>1. sent[r] \o <<Invalid(0)>> \in Seq(Numbers)
    <3>1. sent[r] \in Seq(Numbers) /\ <<Invalid(0)>> \in Seq(Numbers)
      BY <1>4, DeclineEffect DEF SumTypes
    <3> QED
      BY <3>1, ConcatProperties
  <2> QED
    BY <1>4, <2>1, DeclineEffect DEF SumTypes
<1>5. CASE Reduce(r)
  <2>1. /\ sent' \in [Procs -> Seq(Numbers)]
        /\ UNCHANGED <<loop, objects, unworked, requests, starts, met, arrived, released>>
    BY <1>5, ReduceEffect
  <2>2. PICK seen \in SUBSET Children(r) :
            /\ \A c \in seen : sent[c] # <<>>
            /\ OwnSum(r, seen) \in Numbers
            /\ Waits(r, seen) \/ SendsUp(r, seen)
    BY <1>5, ReduceEffect
  <2>3. With(r, seen) \in Numbers /\ Fresh(0, 0) \in Numbers
    BY <2>2, TakenUp DEF Fresh, Numbers
  <2>4. CASE Waits(r, seen)
    BY <2>1, <2>3, <2>4 DEF Waits, SumTypes
  <2>5. CASE SendsUp(r, seen)
    <3>1. printed' \in Seq(Numbers)
      BY <2>2, <2>5, AppendProperties DEF SendsUp, SumTypes
    <3> QED
      BY <2>1, <2>3, <2>5, <3>1 DEF SendsUp, SumTypes
  <2> QED
    BY <2>2, <2>4, <2>5
<1>6. CASE BarrierTest(r)
  <2>1. UNCHANGED <<objects, unworked, outstanding, requests, sent, starts, printed>>
    BY <1>6, BarrierEffect
  <2>2. PICK heard \in SUBSET {c \in Children(r) : arrived[c]}, all \in BOOLEAN, up \in BOOLEAN :
            /\ Cardinality(heard) \in Nat
            /\ arrived' = [p \in Procs |-> (arrived[p] /\ p \notin heard) \/ (p = r /\ up)]
            /\ Hears(r, heard, all, up) \/ Passes(r, all, up)
    BY <1>6, BarrierEffect
  <2>3. arrived' \in [Procs -> BOOLEAN]
    BY <2>2
  <2>4. CASE Hears(r, heard, all, up)
    BY <2>1, <2>2, <2>3, <2>4 DEF Hears, SumTypes
  <2>5. CASE Passes(r, all, up)
    <3>1. Fresh(objects[r], objects[r]) \in Numbers
      BY DEF Fresh, Numbers, SumTypes
    <3>2. released' \in [Procs -> BOOLEAN]
      BY <2>5 DEF Passes
    <3> QED
      BY <2>1, <2>2, <2>3, <2>5, <3>1, <3>2 DEF Passes, SumTypes
  <2> QED
    BY <2>2, <2>4, <2>5
<1>7. CASE SyncReceive(r)
  <2>1. /\ sent' \in [Procs -> Seq(Numbers)]
        /\ \E c \in Children(r) :
              sum' = [sum EXCEPT ![r] = With(r, {c})] /\ With(r, {c}) \in Numbers
        /\ UNCHANGED <<loop, objects, unworked, outstanding, requests, starts, printed, met,
                       arrived, released>>
    BY <1>7, SyncReceiveEffect
  <2> QED
    BY <2>1 DEF SumTypes
<1>8. CASE SyncSend(r)
  <2>1. /\ loop' = [loop EXCEPT ![r] = "done"]
        /\ sent' \in [Procs -> Seq(Numbers)]
        /\ printed' = IF r = Top THEN Append(printed, sum[r]) ELSE printed
        /\ UNCHANGED <<objects, unworked, outstanding, sum, requests, starts, met, arrived,
                       released>>
    BY <1>8, SyncSendEffect
  <2>2. printed' \in Seq(Numbers)
    BY <2>1, AppendProperties DEF SumTypes
  <2> QED
    BY <2>1, <2>2 DEF SumTypes
<1> QED
  BY <1>1, <1>2, <1>3, <1>4, <1>5, <1>6, <1>7, <1>8

-----------------------------------------------------------------------------
(* The barrier                                                               *)

\* A rank that has come to the barrier takes part in no reduction, and its children
\* have come and been heard; one that is past it follows its parent.
BarrierInv ==
    /\ ~met[Top].up
    /\ \A r \in Procs :
          /\ met[r].up => loop[r] = "cleanup"
          /\ Ready(r) => ~outstanding[r] /\ \A c \in Children(r) : Ready(c) /\ ~arrived[c]
          /\ ~Past(r) => met[r].replies = Cardinality(Came(r))
          /\ loop[r] # "work" => unworked = 0
    /\ \A c \in Procs \ {Top} :
          /\ released[c] \/ Past(c) => Past(ParentOf[c])
          /\ arrived[c] => Ready(c)

LEMMA BarrierInit == ASSUME TreeAssumption, SumInit PROVE BarrierInv
<1>1. \A r \in Procs : loop[r] = "work" /\ met[r] = [replies |-> 0, up |-> FALSE]
          /\ ~arrived[r] /\ ~released[r]
  BY DEF SumInit
<1>2. \A r \in Procs : ~Ready(r) /\ ~Past(r)
  BY <1>1 DEF Ready, Past
<1>3. \A r \in Procs : Came(r) = {}
  BY <1>2 DEF Came, Children
<1>4. \A r \in Procs : met[r].replies = Cardinality(Came(r))
  BY <1>1, <1>3, FS_EmptySet
<1> QED
  BY <1>1, <1>2, <1>4 DEF BarrierInv, TreeAssumption

\* A call that has nothing to do with the barrier.
LEMMA BarrierKept ==
    ASSUME TreeAssumption, BarrierInv, UNCHANGED <<met, arrived, released>>,
           \A r \in Procs : Past(r)' <=> Past(r),
           \A r \in Procs : /\ met[r].up => loop'[r] = "cleanup"
                            /\ Ready(r) => ~outstanding'[r]
                            /\ loop'[r] # "work" => unworked' = 0
    PROVE  BarrierInv'
<1>1. \A r \in Procs : Ready(r)' <=> Ready(r)
  BY DEF Ready
<1>2. \A r \in Procs : Came(r)' = Came(r)
  BY <1>1, ChildrenOf DEF Came, Children
<1>3. Top \in Procs /\ \A c \in Procs \ {Top} : ParentOf[c] \in Procs
  BY DEF TreeAssumption
<1>4. \A r \in Procs : /\ (met[r].up)' <=> met[r].up
                       /\ ~Past(r)' => (met[r].replies = Cardinality(Came(r)))'
  BY <1>2 DEF BarrierInv
<1>5. ASSUME NEW r \in Procs, Ready(r)'
      PROVE  ~outstanding'[r] /\ \A c \in Children(r) : Ready(c)' /\ ~arrived'[c]
  BY <1>1, <1>5, ChildrenOf DEF BarrierInv
<1>6. ASSUME NEW c \in Procs \ {Top}
      PROVE  /\ released'[c] \/ Past(c)' => Past(ParentOf[c])'
             /\ arrived'[c] => Ready(c)'
  BY <1>1, <1>3 DEF BarrierInv
<1>7. ~(met[Top].up)'
  BY DEF BarrierInv
<1> QED
  BY <1>4, <1>5, <1>6, <1>7 DEF BarrierInv, Children

\* A rank hears children, or tells its parent that it has come.
LEMMA BarrierHears ==
    ASSUME TreeAssumption, SumTypes, BarrierInv, NEW r \in Procs,
           loop[r] = "cleanup", ~outstanding[r],
           NEW heard \in SUBSET {c \in Children(r) : arrived[c]},
           NEW all \in BOOLEAN, NEW up \in BOOLEAN,
           Cardinality(heard) \in Nat, IsFiniteSet(heard),
           all <=> met[r].replies + Cardinality(heard) = Expected(r),
           up <=> all /\ r # Top /\ ~met[r].up,
           arrived' = [p \in Procs |-> (arrived[p] /\ p \notin heard) \/ (p = r /\ up)],
           Hears(r, heard, all, up), UNCHANGED <<outstanding, unworked>>
    PROVE  BarrierInv'
<1>1. /\ met' = [met EXCEPT ![r] = [replies |-> met[r].replies + Cardinality(heard), up |-> all]]
      /\ UNCHANGED <<loop, released>>
      /\ heard # {} \/ up
      /\ r = Top => ~all
  BY DEF Hears
<1>2. \A p \in Procs : Past(p)' <=> Past(p)
  BY <1>1 DEF Past
<1>3. ~Past(r)
  BY DEF Past
<1>4. heard \subseteq Children(r) \ Came(r)
  BY DEF Came
<1>5. /\ Came(r) \subseteq Children(r) /\ IsFiniteSet(Came(r))
      /\ met[r].replies = Cardinality(Came(r)) /\ Cardinality(Came(r)) \in Nat
  BY <1>3, SomeChildren DEF Came, BarrierInv
<1>6. Cardinality(Came(r) \cup heard) = met[r].replies + Cardinality(heard)
  <2>1. Came(r) \cap heard = {}
    BY <1>4
  <2>2. Cardinality(Came(r) \cup heard) =
            Cardinality(Came(r)) + Cardinality(heard) - Cardinality({})
    BY <1>5, <2>1, FS_Union
  <2> QED
    BY <1>5, <2>2, FS_EmptySet
<1>7. all => Came(r) \cup heard = Children(r)
  BY <1>4, <1>5, <1>6, SomeChildren
<1>8. ~met[r].up
  <2> SUFFICES ASSUME met[r].up
               PROVE  FALSE
    OBVIOUS
  <2>1. heard # {}
    BY <1>1
  <2>2. \A c \in Children(r) : ~arrived[c]
    BY DEF BarrierInv, Ready
  <2> QED
    BY <2>1, <2>2
<1>9. \A p \in Procs : met'[p].up <=> IF p = r THEN all ELSE met[p].up
  BY <1>1 DEF SumTypes
<1>10. \A p \in Procs : Ready(p)' <=> Ready(p) \/ (p = r /\ all)
  BY <1>2, <1>8, <1>9 DEF Ready
<1>11. r \notin Children(r) /\ \A p \in Procs : arrived'[p] <=> (arrived[p] /\ p \notin heard) \/ (p = r /\ up)
  BY ChildrenOf
<1>12. Came(r)' = Came(r) \cup heard
  <2>1. \A c \in Children(r) : c \in Procs /\ c # r /\ (Ready(c)' <=> Ready(c))
                               /\ (arrived'[c] <=> arrived[c] /\ c \notin heard)
    BY <1>10, <1>11, ChildrenOf
  <2>2. \A c \in heard : Ready(c)
    BY ChildrenOf DEF BarrierInv
  <2> QED
    BY <1>4, <2>1, <2>2 DEF Came, Children
<1>13. \A p \in Procs \ {r} : Came(p)' = Came(p)
  <2> SUFFICES ASSUME NEW p \in Procs \ {r}, NEW c \in Children(p)
               PROVE  Ready(c)' /\ ~arrived'[c] <=> Ready(c) /\ ~arrived[c]
    BY DEF Came, Children
  <2>1. c \in Procs \ {Top} /\ c \notin heard /\ (arrived[c] => Ready(c))
    BY ChildrenOf DEF Children, BarrierInv
  <2>2. CASE c = r
    <3>1. ~Ready(c)
      BY <1>3, <1>8, <2>2 DEF Ready
    <3> QED
      BY <1>8, <1>10, <1>11, <2>1, <2>2, <3>1
  <2> QED
    BY <1>10, <1>11, <2>1, <2>2
<1>14. \A p \in Procs : ~Past(p)' => met'[p].replies = Cardinality(Came(p)')
  <2> SUFFICES ASSUME NEW p \in Procs, ~Past(p)
               PROVE  met'[p].replies = Cardinality(Came(p)')
    BY <1>2
  <2>1. CASE p = r
    BY <1>1, <1>6, <1>12, <2>1 DEF SumTypes
  <2>2. CASE p # r
    BY <1>1, <1>13, <2>2 DEF SumTypes, BarrierInv
  <2> QED
    BY <2>1, <2>2
<1>15. ASSUME NEW p \in Procs, Ready(p)'
       PROVE  ~outstanding'[p] /\ \A c \in Children(p) : Ready(c)' /\ ~arrived'[c]
  <2>1. CASE p = r
    <3>1. Came(r)' = Children(r)
      BY <1>3, <1>7, <1>8, <1>10, <1>12, <1>15, <2>1 DEF Ready
    <3> QED
      BY <2>1, <3>1 DEF Came
  <2>2. CASE p # r
    <3>1. Ready(p) /\ ~outstanding[p] /\ \A c \in Children(p) : Ready(c) /\ ~arrived[c]
      BY <1>10, <1>15, <2>2 DEF BarrierInv
    <3>2. \A c \in Children(p) : c # r
      BY <1>3, <1>8, <3>1 DEF Ready
    <3> QED
      BY <1>10, <1>11, <3>1, <3>2, ChildrenOf
  <2> QED
    BY <2>1, <2>2
<1>16. ASSUME NEW c \in Procs \ {Top}
       PROVE  /\ released'[c] \/ Past(c)' => Past(ParentOf[c])'
              /\ arrived'[c] => Ready(c)'
  BY <1>1, <1>2, <1>10, <1>11 DEF BarrierInv, TreeAssumption
<1>17. \A p \in Procs : (met'[p].up => loop'[p] = "cleanup") /\ (loop'[p] # "work" => unworked' = 0)
  BY <1>1, <1>9 DEF BarrierInv
<1>18. ~met'[Top].up
  BY <1>1, <1>9 DEF BarrierInv, TreeAssumption
<1> QED
  BY <1>14, <1>15, <1>16, <1>17, <1>18 DEF BarrierInv, Children

\* A rank passes the barrier.
LEMMA BarrierPasses ==
    ASSUME TreeAssumption, SumTypes, BarrierInv, NEW r \in Procs,
           loop[r] = "cleanup", ~outstanding[r],
           NEW heard \in SUBSET {c \in Children(r) : arrived[c]},
           NEW all \in BOOLEAN, NEW up \in BOOLEAN,
           Cardinality(heard) \in Nat, IsFiniteSet(heard),
           all <=> met[r].replies + Cardinality(heard) = Expected(r),
           up <=> all /\ r # Top /\ ~met[r].up,
           arrived' = [p \in Procs |-> (arrived[p] /\ p \notin heard) \/ (p = r /\ up)],
           Passes(r, all, up), UNCHANGED <<outstanding, unworked>>
    PROVE  /\ BarrierInv'
           /\ r = Top \/ Past(ParentOf[r])
           /\ \A p \in Procs : (Past(p)' <=> Past(p) \/ p = r) /\ (Ready(p) => Ready(p)')
           /\ \A c \in Children(r) : Ready(c)
<1>1. /\ all /\ ~up /\ (r = Top \/ released[r])
      /\ met' = [met EXCEPT ![r] = [replies |-> 0, up |-> FALSE]]
      /\ released' = [p \in Procs |-> (released[p] /\ p # r) \/ p \in Children(r)]
      /\ loop' = [loop EXCEPT ![r] = "sync"]
  BY DEF Passes
<1>2. \A p \in Procs : Past(p)' <=> Past(p) \/ p = r
  BY <1>1 DEF Past, SumTypes
<1>3. ~Past(r)
  BY DEF Past
<1>4. /\ Came(r) \subseteq Children(r) /\ IsFiniteSet(Came(r)) /\ heard \cap Came(r) = {}
      /\ met[r].replies = Cardinality(Came(r)) /\ Cardinality(Came(r)) \in Nat
  BY <1>3, SomeChildren DEF Came, BarrierInv
<1>5. Came(r) \cup heard = Children(r)
  <2>1. Cardinality(Came(r) \cup heard) = Cardinality(Came(r)) + Cardinality(heard) - Cardinality({})
    BY <1>4, FS_Union
  <2>2. Cardinality(Came(r) \cup heard) = Expected(r)
    BY <1>1, <1>4, <2>1, FS_EmptySet
  <2> QED
    BY <1>4, <2>2, SomeChildren
<1>6. \A c \in Children(r) : Ready(c) /\ (arrived[c] => c \in heard)
  <2>1. \A c \in heard : Ready(c)
    BY ChildrenOf DEF BarrierInv
  <2> QED
    BY <1>5, <2>1 DEF Came
<1>7. r # Top => met[r].up /\ Past(ParentOf[r])
  BY <1>1 DEF BarrierInv
<1>8. \A p \in Procs : met'[p].up <=> p # r /\ met[p].up
  BY <1>1 DEF SumTypes
<1>9. \A p \in Procs : Ready(p)' <=> Ready(p) \/ p = r
  BY <1>2, <1>8 DEF Ready
<1>10. \A p \in Procs : arrived'[p] <=> arrived[p] /\ p \notin heard
  BY <1>1
<1>11. r # Top => Ready(r)
  BY <1>7 DEF Ready
<1>12. \A p \in Procs \ {r} : Came(p)' = Came(p)
  <2> SUFFICES ASSUME NEW p \in Procs \ {r}, NEW c \in Children(p)
               PROVE  Ready(c)' /\ ~arrived'[c] <=> Ready(c) /\ ~arrived[c]
    BY DEF Came, Children
  <2>1. c \in Procs \ {Top} /\ c \notin heard
    BY ChildrenOf DEF Children
  <2> QED
    BY <1>9, <1>10, <1>11, <2>1
<1>13. \A p \in Procs : ~Past(p)' => met'[p].replies = Cardinality(Came(p)')
  <2> SUFFICES ASSUME NEW p \in Procs \ {r}, ~Past(p)
               PROVE  met'[p].replies = Cardinality(Came(p)')
    BY <1>2
  <2> QED
    BY <1>1, <1>12 DEF SumTypes, BarrierInv
<1>14. ASSUME NEW p \in Procs, Ready(p)'
       PROVE  ~outstanding'[p] /\ \A c \in Children(p) : Ready(c)' /\ ~arrived'[c]
  <2>1. CASE p = r
    BY <1>6, <1>9, <1>10, <2>1, ChildrenOf
  <2>2. CASE p # r
    <3>1. Ready(p) /\ ~outstanding[p] /\ \A c \in Children(p) : Ready(c) /\ ~arrived[c]
      BY <1>9, <1>14, <2>2 DEF BarrierInv
    <3> QED
      BY <1>9, <1>10, <3>1, ChildrenOf
  <2> QED
    BY <2>1, <2>2
<1>15. ASSUME NEW c \in Procs \ {Top}
       PROVE  /\ released'[c] \/ Past(c)' => Past(ParentOf[c])'
              /\ arrived'[c] => Ready(c)'
  <2>1. ParentOf[c] \in Procs
    BY DEF TreeAssumption
  <2>2. released'[c] => released[c] \/ ParentOf[c] = r
    BY <1>1, ChildrenOf
  <2>3. released[c] \/ Past(c) => Past(ParentOf[c])
    BY DEF BarrierInv
  <2>4. arrived'[c] => Ready(c)'
    BY <1>9, <1>10 DEF BarrierInv
  <2> QED
    BY <1>2, <1>7, <2>1, <2>2, <2>3, <2>4
<1>16. \A p \in Procs : (met'[p].up => loop'[p] = "cleanup") /\ (loop'[p] # "work" => unworked' = 0)
  BY <1>1, <1>8 DEF BarrierInv, SumTypes
<1>17. ~met'[Top].up
  BY <1>8 DEF BarrierInv, TreeAssumption
<1>18. BarrierInv'
  BY <1>13, <1>14, <1>15, <1>16, <1>17 DEF BarrierInv, Children
<1> QED
  BY <1>2, <1>6, <1>7, <1>9, <1>18

LEMMA BarrierNext ==
    ASSUME TreeAssumption, SumTypes, BarrierInv, NEW r \in Procs,
           \/ Process(r) \/ Leave(r) \/ StartReduce(r) \/ Decline(r) \/ Reduce(r)
           \/ BarrierTest(r) \/ SyncReceive(r) \/ SyncSend(r)
    PROVE  BarrierInv'
<1>0. \A p \in Procs : /\ met[p].up => loop[p] = "cleanup"
                       /\ Ready(p) => loop[p] # "work" /\ ~outstanding[p]
                       /\ loop[p] # "work" => unworked = 0
  BY DEF BarrierInv, Ready, Past
<1>1. CASE Process(r)
  <2>1. /\ UNCHANGED <<loop, met, arrived, released, outstanding>>
        /\ unworked > 0 /\ unworked' = unworked - 1
    BY <1>1 DEF Process, reduction, barrier
  <2>2. \A p \in Procs : loop[p] = "work"
    BY <1>0, <2>1
  <2>3. \A p \in Procs : Past(p)' <=> Past(p)
    BY <2>1 DEF Past
  <2> QED
    BY <1>0, <2>1, <2>2, <2>3, BarrierKept
<1>2. CASE Leave(r)
  <2>1. /\ UNCHANGED <<met, arrived, released, outstanding, unworked>>
        /\ loop[r] = "work" /\ unworked = 0
        /\ loop' = [loop EXCEPT ![r] = "cleanup"]
    BY <1>2 DEF Leave, reduction, barrier
  <2>2. \A p \in Procs : Past(p)' <=> Past(p)
    BY <2>1 DEF Past, SumTypes
  <2>3. \A p \in Procs : met[p].up => loop'[p] = "cleanup"
    BY <1>0, <2>1 DEF SumTypes
  <2> QED
    BY <1>0, <2>1, <2>2, <2>3, BarrierKept
<1>3. CASE StartReduce(r)
  <2>1. /\ UNCHANGED <<loop, met, arrived, released, unworked>> /\ loop[r] = "work"
        /\ outstanding' = [outstanding EXCEPT ![r] = TRUE]
    BY <1>3, StartEffect
  <2>2. \A p \in Procs : Past(p)' <=> Past(p)
    BY <2>1 DEF Past
  <2>3. \A p \in Procs : Ready(p) => ~outstanding'[p]
    BY <1>0, <2>1 DEF SumTypes
  <2> QED
    BY <1>0, <2>1, <2>2, <2>3, BarrierKept
<1>4. CASE Decline(r)
  <2>1. UNCHANGED <<loop, met, arrived, released, unworked, outstanding>>
    BY <1>4, DeclineEffect
  <2>2. \A p \in Procs : Past(p)' <=> Past(p)
    BY <2>1 DEF Past
  <2> QED
    BY <1>0, <2>1, <2>2, BarrierKept
<1>5. CASE Reduce(r)
  <2>1. /\ UNCHANGED <<loop, met, arrived, released, unworked>>
        /\ \E seen \in SUBSET Children(r) : Waits(r, seen) \/ SendsUp(r, seen)
    BY <1>5, ReduceEffect
  <2>2. \A p \in Procs : Past(p)' <=> Past(p)
    BY <2>1 DEF Past
  <2>3. \A p \in Procs : outstanding'[p] => outstanding[p]
    BY <2>1 DEF Waits, SendsUp, SumTypes
  <2> QED
    BY <1>0, <2>1, <2>2, <2>3, BarrierKept
<1>6. CASE BarrierTest(r)
  <2>1. PICK heard \in SUBSET {c \in Children(r) : arrived[c]}, all \in BOOLEAN, up \in BOOLEAN :
            /\ Cardinality(heard) \in Nat /\ IsFiniteSet(heard)
            /\ all <=> met[r].replies + Cardinality(heard) = Expected(r)
            /\ up <=> all /\ r # Top /\ ~met[r].up
            /\ arrived' = [p \in Procs |-> (arrived[p] /\ p \notin heard) \/ (p = r /\ up)]
            /\ Hears(r, heard, all, up) \/ Passes(r, all, up)
    BY <1>6, BarrierEffect
  <2>2. loop[r] = "cleanup" /\ ~outstanding[r] /\ UNCHANGED <<outstanding, unworked>>
    BY <1>6, BarrierEffect
  <2>3. CASE Hears(r, heard, all, up)
    BY <2>1, <2>2, <2>3, BarrierHears
  <2>4. CASE Passes(r, all, up)
    BY <2>1, <2>2, <2>4, BarrierPasses
  <2> QED
    BY <2>1, <2>3, <2>4
<1>7. CASE SyncReceive(r)
  <2>1. UNCHANGED <<loop, met, arrived, released, unworked, outstanding>>
    BY <1>7, SyncReceiveEffect
  <2>2. \A p \in Procs : Past(p)' <=> Past(p)
    BY <2>1 DEF Past
  <2> QED
    BY <1>0, <2>1, <2>2, BarrierKept
<1>8. CASE SyncSend(r)
  <2>1. /\ UNCHANGED <<met, arrived, released, unworked, outstanding>>
        /\ loop[r] = "sync" /\ loop' = [loop EXCEPT ![r] = "done"]
    BY <1>8, SyncSendEffect
  <2>2. \A p \in Procs : Past(p)' <=> Past(p)
    BY <2>1 DEF Past, SumTypes
  <2>3. \A p \in Procs : /\ met[p].up => loop'[p] = "cleanup"
                         /\ loop'[p] # "work" => unworked = 0
    BY <1>0, <2>1 DEF SumTypes
  <2> QED
    BY <1>0, <2>1, <2>2, <2>3, BarrierKept
<1> QED
  BY <1>1, <1>2, <1>3, <1>4, <1>5, <1>6, <1>7, <1>8

-----------------------------------------------------------------------------
(* The edges of the tree                                                     *)

\* What a rank has sent its parent in the last reduction.
LastSent(c) ==
    /\ loop[c] = "done" /\ loop[ParentOf[c]] = "sync"
    /\ Head(sent[c]).valid /\ Head(sent[c]).user = Head(sent[c]).total

\* There is one message at most between a rank and its parent; it is of the parent's
\* reduction, or of the last one; and a rank that is done has heard all its children.
Edge(c) ==
    /\ requests[c] <= 1 /\ Len(sent[c]) <= 1
    /\ requests[c] = 1 => outstanding[ParentOf[c]] /\ ~outstanding[c] /\ sent[c] = <<>>
    /\ outstanding[c] => outstanding[ParentOf[c]] /\ sent[c] = <<>>
    /\ sent[c] # <<>> => outstanding[ParentOf[c]] \/ LastSent(c)
    /\ loop[ParentOf[c]] = "done" => loop[c] = "done" /\ sent[c] = <<>>
\* A rank has counted the children that it has heard.
Counted(r) ==
    /\ outstanding[r] => sum[r].replies = Cardinality(Heard(r))
    /\ loop[r] = "sync" => /\ sum[r].replies = Cardinality(Ended(r))
                           /\ sum[r].valid /\ sum[r].user = sum[r].total
EdgesInv ==
    /\ requests[Top] = 0 /\ sent[Top] = <<>>
    /\ \A c \in Procs \ {Top} : Edge(c)
    /\ \A r \in Procs : Counted(r)

LEMMA OneMessage ==
    ASSUME NEW s \in Seq(Numbers), Len(s) <= 1, s # <<>>
    PROVE  Tail(s) = <<>>
<1>1. Len(s) \in Nat /\ Len(s) # 0
  BY EmptySeq, LenProperties
<1>2. Tail(s) \in Seq(Numbers) /\ Len(Tail(s)) = Len(s) - 1
  BY HeadTailProperties
<1>3. Len(Tail(s)) = 0
  BY <1>1, <1>2
<1> QED
  BY <1>2, <1>3, EmptySeq

LEMMA NewMessage ==
    ASSUME NEW m \in Numbers
    PROVE  <<>> \o <<m>> = <<m>> /\ Len(<<m>>) = 1 /\ Head(<<m>>) = m /\ <<m>> # <<>>
           /\ Tail(<<m>>) = <<>>
OBVIOUS

LEMMA EdgesInit == ASSUME TreeAssumption, SumInit PROVE EdgesInv
<1>1. \A r \in Procs : /\ requests[r] = 0 /\ sent[r] = <<>> /\ ~outstanding[r]
                       /\ loop[r] = "work"
  BY DEF SumInit
<1>2. Top \in Procs /\ \A c \in Procs \ {Top} : ParentOf[c] \in Procs
  BY DEF TreeAssumption
<1> QED
  BY <1>1, <1>2 DEF EdgesInv, Edge, Counted

\* A call that has nothing to do with reductions.
LEMMA EdgesKept ==
    ASSUME TreeAssumption, EdgesInv, UNCHANGED <<outstanding, sum, requests, sent>>,
           \A r \in Procs : /\ loop'[r] = "done" <=> loop[r] = "done"
                            /\ loop'[r] = "sync" <=> loop[r] = "sync"
    PROVE  EdgesInv'
<1>1. \A r \in Procs : Heard(r)' = Heard(r) /\ Ended(r)' = Ended(r)
  BY ChildrenOf DEF Heard, Ended, Children
<1>2. \A c \in Procs \ {Top} : Edge(c)'
  BY DEF Edge, EdgesInv, LastSent, TreeAssumption
<1>3. \A r \in Procs : Counted(r)'
  BY <1>1 DEF Counted, EdgesInv
<1> QED
  BY <1>2, <1>3 DEF EdgesInv

LEMMA EdgesStart ==
    ASSUME TreeAssumption, SumTypes, EdgesInv, NEW r \in Procs, StartReduce(r)
    PROVE  EdgesInv' /\ \A c \in Children(r) : requests[c] = 0 /\ ~outstanding[c] /\ sent[c] = <<>>
<1>1. /\ loop[r] = "work" /\ ~outstanding[r] /\ (r # Top => requests[r] > 0)
      /\ outstanding' = [outstanding EXCEPT ![r] = TRUE]
      /\ sum' = [sum EXCEPT ![r] = Fresh(0, objects[r])]
      /\ \A p \in Procs : requests'[p] = IF p = r THEN IF r = Top THEN requests[p]
                                                                  ELSE requests[p] - 1
                                         ELSE IF p \in Children(r) THEN requests[p] + 1
                                         ELSE requests[p]
      /\ UNCHANGED <<loop, sent>>
  BY StartEffect
<1>2. /\ \A p \in Procs : /\ requests[p] \in Nat
                          /\ outstanding'[p] <=> p = r \/ outstanding[p]
                          /\ p # r => sum'[p] = sum[p]
      /\ sum'[r] = Fresh(0, objects[r])
  BY <1>1 DEF SumTypes
<1>3. \A c \in Procs \ {Top} : Edge(c) /\ ParentOf[c] \in Procs
  BY DEF EdgesInv, TreeAssumption
<1>4. \A c \in Children(r) : requests[c] = 0 /\ ~outstanding[c] /\ sent[c] = <<>> /\ c # r
  BY <1>1, <1>2, <1>3, ChildrenOf DEF Edge, LastSent
<1>5. r # Top => requests[r] = 1 /\ outstanding[ParentOf[r]] /\ sent[r] = <<>> /\ requests'[r] = 0
  BY <1>1, <1>2, <1>3 DEF Edge
<1>6. ASSUME NEW c \in Procs \ {Top}
      PROVE  Edge(c)'
  <2>1. CASE c = r
    BY <1>1, <1>2, <1>3, <1>5, <2>1 DEF Edge, LastSent
  <2>2. CASE c \in Children(r)
    BY <1>1, <1>2, <1>3, <1>4, <2>2, ChildrenOf DEF Edge, LastSent
  <2>3. CASE c # r /\ c \notin Children(r)
    BY <1>1, <1>2, <1>3, <2>3, ChildrenOf DEF Edge, LastSent
  <2> QED
    BY <2>1, <2>2, <2>3
<1>7. Heard(r)' = {}
  <2>1. \A c \in Children(r) : requests'[c] = 1
    BY <1>1, <1>4, ChildrenOf
  <2> QED
    BY <2>1 DEF Heard, Children
<1>8. \A p \in Procs \ {r} : Heard(p)' = Heard(p)
  <2> SUFFICES ASSUME NEW p \in Procs \ {r}, NEW c \in Children(p)
               PROVE  requests'[c] = 0 /\ ~outstanding'[c] /\ sent'[c] = <<>> <=>
                      requests[c] = 0 /\ ~outstanding[c] /\ sent[c] = <<>>
    BY DEF Heard, Children
  <2>1. c \in Procs \ {Top} /\ c \notin Children(r)
    BY ChildrenOf
  <2> QED
    BY <1>1, <1>2, <1>5, <2>1
<1>9. \A p \in Procs : Ended(p)' = Ended(p)
  BY <1>1 DEF Ended, Children
<1>10. ASSUME NEW p \in Procs
       PROVE  Counted(p)'
  <2>1. CASE p = r
    <3>1. sum'[r].replies = 0 /\ loop'[r] = "work"
      BY <1>1, <1>2 DEF Fresh
    <3>2. Cardinality(Heard(r)') = 0
      BY <1>7, FS_EmptySet
    <3> QED
      BY <2>1, <3>1, <3>2 DEF Counted
  <2>2. CASE p # r
    BY <1>1, <1>2, <1>8, <1>9, <2>2 DEF Counted, EdgesInv
  <2> QED
    BY <2>1, <2>2
<1>11. requests'[Top] = 0 /\ sent'[Top] = <<>>
  BY <1>1, ChildrenOf DEF EdgesInv, TreeAssumption
<1> QED
  BY <1>4, <1>6, <1>10, <1>11 DEF EdgesInv

LEMMA EdgesDecline ==
    ASSUME TreeAssumption, SumTypes, EdgesInv, NEW r \in Procs, Decline(r)
    PROVE  EdgesInv' /\ requests[r] = 1 /\ sent[r] = <<>> /\ sent'[r] = <<Invalid(0)>>
<1>1. /\ loop[r] = "cleanup" /\ ~outstanding[r] /\ r # Top /\ requests[r] > 0
      /\ \A p \in Procs : requests'[p] = IF p = r THEN requests[p] - 1 ELSE requests[p]
      /\ sent' = [sent EXCEPT ![r] = sent[r] \o <<Invalid(0)>>] /\ Invalid(0) \in Numbers
      /\ UNCHANGED <<loop, outstanding, sum>>
  BY DeclineEffect
<1>2. /\ \A p \in Procs : requests[p] \in Nat /\ (p # r => sent'[p] = sent[p])
      /\ sent'[r] = sent[r] \o <<Invalid(0)>>
  BY <1>1 DEF SumTypes
<1>3. \A c \in Procs \ {Top} : Edge(c) /\ ParentOf[c] \in Procs
  BY DEF EdgesInv, TreeAssumption
<1>4. requests[r] = 1 /\ requests'[r] = 0 /\ outstanding[ParentOf[r]] /\ sent[r] = <<>>
  BY <1>1, <1>2, <1>3 DEF Edge
<1>5. sent'[r] = <<Invalid(0)>> /\ Len(sent'[r]) = 1 /\ sent'[r] # <<>>
  <2>1. PICK m \in Numbers : m = Invalid(0)
    BY <1>1
  <2>2. sent'[r] = <<>> \o <<m>>
    BY <1>2, <1>4, <2>1
  <2>3. <<>> \o <<m>> = <<m>> /\ Len(<<m>>) = 1 /\ <<m>> # <<>>
    BY NewMessage
  <2> QED
    BY <2>1, <2>2, <2>3
<1>6. ASSUME NEW c \in Procs \ {Top}
      PROVE  Edge(c)'
  <2>1. CASE c = r
    <3>1. loop[ParentOf[r]] # "done"
      BY <1>1, <1>3 DEF Edge
    <3> QED
      BY <1>1, <1>4, <1>5, <2>1, <3>1 DEF Edge
  <2>2. CASE c # r
    BY <1>1, <1>2, <1>3, <2>2 DEF Edge, LastSent
  <2> QED
    BY <2>1, <2>2
<1>7. \A p \in Procs : Heard(p)' = Heard(p) /\ Ended(p)' = Ended(p)
  <2> SUFFICES ASSUME NEW p \in Procs, NEW c \in Children(p)
               PROVE  /\ requests'[c] = 0 /\ ~outstanding'[c] /\ sent'[c] = <<>> <=>
                         requests[c] = 0 /\ ~outstanding[c] /\ sent[c] = <<>>
                      /\ loop'[c] = "done" /\ sent'[c] = <<>> <=>
                         loop[c] = "done" /\ sent[c] = <<>>
    BY DEF Heard, Ended, Children
  <2>1. c \in Procs
    BY ChildrenOf
  <2> QED
    BY <1>1, <1>2, <1>4, <1>5, <2>1
<1>8. \A p \in Procs : Counted(p)'
  BY <1>1, <1>7 DEF Counted, EdgesInv
<1>9. requests'[Top] = 0 /\ sent'[Top] = <<>>
  BY <1>1, <1>2 DEF EdgesInv, TreeAssumption
<1> QED
  BY <1>4, <1>5, <1>6, <1>8, <1>9 DEF EdgesInv

\* What a rank sees of its children in a reduction is new to it.
LEMMA SeenNow ==
    ASSUME TreeAssumption, SumTypes, EdgesInv, NEW r \in Procs, outstanding[r],
           loop[r] \in {"work", "cleanup"},
           NEW seen \in SUBSET Children(r), \A c \in seen : sent[c] # <<>>
    PROVE  /\ \A c \in seen : requests[c] = 0 /\ ~outstanding[c] /\ Tail(sent[c]) = <<>>
           /\ seen \cap Heard(r) = {} /\ r \notin seen /\ r \notin Children(r)
           /\ Heard(r) \cup seen \subseteq Children(r)
           /\ Cardinality(Heard(r) \cup seen) = sum[r].replies + Cardinality(seen)
           /\ r # Top => /\ outstanding[ParentOf[r]] /\ sent[r] = <<>> /\ requests[r] = 0
                         /\ loop[ParentOf[r]] # "done"
<1>1. \A c \in Procs \ {Top} : Edge(c) /\ ParentOf[c] \in Procs
  BY DEF EdgesInv, TreeAssumption
<1>2. \A c \in seen : requests[c] = 0 /\ ~outstanding[c] /\ Tail(sent[c]) = <<>>
  <2> SUFFICES ASSUME NEW c \in seen
               PROVE  requests[c] = 0 /\ ~outstanding[c] /\ Tail(sent[c]) = <<>>
    OBVIOUS
  <2>1. c \in Procs \ {Top} /\ sent[c] # <<>> /\ Edge(c)
    BY <1>1, ChildrenOf
  <2>2. sent[c] \in Seq(Numbers) /\ requests[c] \in Nat
    BY <2>1 DEF SumTypes
  <2>3. Tail(sent[c]) = <<>>
    BY <2>1, <2>2, OneMessage DEF Edge
  <2> QED
    BY <2>1, <2>2, <2>3 DEF Edge
<1>3. seen \cap Heard(r) = {} /\ Heard(r) \subseteq Children(r)
  BY DEF Heard
<1>4. /\ IsFiniteSet(seen) /\ IsFiniteSet(Heard(r)) /\ Cardinality(seen) \in Nat
      /\ Cardinality(Heard(r)) \in Nat /\ r \notin Children(r)
  BY <1>3, SomeChildren, ChildrenOf
<1>5. Cardinality(Heard(r) \cup seen) = sum[r].replies + Cardinality(seen)
  <2>1. Cardinality(Heard(r) \cup seen) = Cardinality(Heard(r)) + Cardinality(seen) - Cardinality({})
    BY <1>3, <1>4, FS_Union
  <2>2. sum[r].replies = Cardinality(Heard(r))
    BY DEF EdgesInv, Counted
  <2> QED
    BY <1>4, <2>1, <2>2, FS_EmptySet
<1>6. r # Top => /\ outstanding[ParentOf[r]] /\ sent[r] = <<>> /\ requests[r] = 0
                 /\ loop[ParentOf[r]] # "done"
  <2>1. requests[r] \in Nat
    BY DEF SumTypes
  <2> QED
    BY <1>1, <2>1 DEF Edge
<1> QED
  BY <1>2, <1>3, <1>4, <1>5, <1>6

LEMMA EdgesWaits ==
    ASSUME TreeAssumption, SumTypes, EdgesInv, NEW r \in Procs, outstanding[r],
           loop[r] \in {"work", "cleanup"},
           NEW seen \in SUBSET Children(r), \A c \in seen : sent[c] # <<>>,
           Waits(r, seen), UNCHANGED <<loop, requests>>
    PROVE  EdgesInv'
<1>1. /\ \A c \in seen : requests[c] = 0 /\ ~outstanding[c] /\ Tail(sent[c]) = <<>>
      /\ Heard(r) \cup seen \subseteq Children(r) /\ r \notin Children(r)
      /\ Cardinality(Heard(r) \cup seen) = sum[r].replies + Cardinality(seen)
  BY SeenNow
<1>2. /\ sum' = [sum EXCEPT ![r] = With(r, seen)]
      /\ \A p \in Procs : sent'[p] = IF p \in seen THEN <<>> ELSE sent[p]
      /\ UNCHANGED outstanding
  BY <1>1 DEF Waits
<1>3. \A c \in Procs \ {Top} : Edge(c) /\ ParentOf[c] \in Procs
  BY DEF EdgesInv, TreeAssumption
<1>4. seen \subseteq Procs \ {Top}
  BY ChildrenOf
<1>5. ASSUME NEW c \in Procs \ {Top}
      PROVE  Edge(c)'
  <2>1. CASE c \in seen
    <3>1. sent'[c] = <<>> /\ Len(sent'[c]) = 0
      BY <1>2, <2>1
    <3> QED
      BY <1>1, <1>2, <1>3, <2>1, <3>1 DEF Edge
  <2>2. CASE c \notin seen
    BY <1>2, <1>3, <2>2 DEF Edge, LastSent
  <2> QED
    BY <2>1, <2>2
<1>6. Heard(r)' = Heard(r) \cup seen
  <2> SUFFICES ASSUME NEW c \in Children(r)
               PROVE  requests'[c] = 0 /\ ~outstanding'[c] /\ sent'[c] = <<>> <=>
                      (requests[c] = 0 /\ ~outstanding[c] /\ sent[c] = <<>>) \/ c \in seen
    BY DEF Heard, Children
  <2>1. c \in Procs
    BY ChildrenOf
  <2> QED
    BY <1>1, <1>2, <2>1
<1>7. \A p \in Procs \ {r} : Heard(p)' = Heard(p) /\ Ended(p)' = Ended(p)
  <2> SUFFICES ASSUME NEW p \in Procs \ {r}, NEW c \in Children(p)
               PROVE  sent'[c] = sent[c]
    BY <1>2 DEF Heard, Ended, Children
  <2>1. c \in Procs /\ c \notin seen
    BY ChildrenOf
  <2> QED
    BY <1>2, <2>1
<1>8. With(r, seen).replies = sum[r].replies + Cardinality(seen)
  BY TakenUp
<1>9. /\ sum'[r].replies = Cardinality(Heard(r)') /\ loop'[r] # "sync"
      /\ \A p \in Procs \ {r} : sum'[p] = sum[p]
  BY <1>1, <1>2, <1>6, <1>8 DEF SumTypes
<1>10. \A p \in Procs : Counted(p)'
  BY <1>2, <1>7, <1>9 DEF Counted, EdgesInv
<1>11. requests'[Top] = 0 /\ sent'[Top] = <<>>
  BY <1>2, <1>4 DEF EdgesInv, TreeAssumption
<1> QED
  BY <1>5, <1>10, <1>11 DEF EdgesInv

LEMMA EdgesSendsUp ==
    ASSUME TreeAssumption, SumTypes, EdgesInv, NEW r \in Procs, outstanding[r],
           loop[r] \in {"work", "cleanup"},
           NEW seen \in SUBSET Children(r), \A c \in seen : sent[c] # <<>>,
           SendsUp(r, seen), OwnSum(r, seen) \in Numbers, UNCHANGED <<loop, requests>>
    PROVE  /\ EdgesInv'
           /\ \A p \in Procs : sent'[p] = IF p \in seen THEN <<>>
                                          ELSE IF p = r /\ r # Top THEN <<OwnSum(r, seen)>>
                                          ELSE sent[p]
           /\ \A c \in Children(r) : requests[c] = 0 /\ ~outstanding[c] /\ sent'[c] = <<>>
<1>1. /\ \A c \in seen : requests[c] = 0 /\ ~outstanding[c] /\ Tail(sent[c]) = <<>>
      /\ Heard(r) \cup seen \subseteq Children(r) /\ r \notin Children(r) /\ r \notin seen
      /\ Cardinality(Heard(r) \cup seen) = sum[r].replies + Cardinality(seen)
      /\ r # Top => /\ outstanding[ParentOf[r]] /\ sent[r] = <<>> /\ requests[r] = 0
                    /\ loop[ParentOf[r]] # "done"
  BY SeenNow
<1>2. PICK own : own = OwnSum(r, seen)
  OBVIOUS
<1>3. <<>> \o <<own>> = <<own>> /\ Len(<<own>>) = 1 /\ <<own>> # <<>>
  BY <1>2, NewMessage
<1>4. /\ outstanding' = [outstanding EXCEPT ![r] = FALSE]
      /\ sum' = [sum EXCEPT ![r] = Fresh(0, 0)]
      /\ With(r, seen).replies = Expected(r)
      /\ \A p \in Procs : sent'[p] = IF p \in seen THEN <<>>
                                     ELSE IF p = r /\ r # Top THEN <<own>> ELSE sent[p]
  BY <1>1, <1>2, <1>3 DEF SendsUp
<1>5. \A c \in Procs \ {Top} : Edge(c) /\ ParentOf[c] \in Procs
  BY DEF EdgesInv, TreeAssumption
<1>6. seen \subseteq Procs \ {Top}
  BY ChildrenOf
<1>7. Heard(r) \cup seen = Children(r)
  <2>1. With(r, seen).replies = sum[r].replies + Cardinality(seen)
    BY TakenUp
  <2> QED
    BY <1>1, <1>4, <2>1, SomeChildren
<1>8. \A c \in Children(r) : requests[c] = 0 /\ ~outstanding[c] /\ sent'[c] = <<>> /\ c # r
  <2> SUFFICES ASSUME NEW c \in Children(r)
               PROVE  requests[c] = 0 /\ ~outstanding[c] /\ sent'[c] = <<>>
    BY <1>1
  <2>1. c \in Procs /\ c # r
    BY <1>1, ChildrenOf
  <2>2. CASE c \in seen
    BY <1>1, <1>4, <2>1, <2>2
  <2>3. CASE c \in Heard(r) /\ c \notin seen
    BY <1>4, <2>1, <2>3 DEF Heard
  <2> QED
    BY <1>7, <2>2, <2>3
<1>9. \A p \in Procs : outstanding'[p] <=> outstanding[p] /\ p # r
  BY <1>4 DEF SumTypes
<1>10. ASSUME NEW c \in Procs \ {Top}
       PROVE  Edge(c)'
  <2>1. CASE c \in Children(r)
    <3>1. sent'[c] = <<>> /\ Len(sent'[c]) = 0 /\ ParentOf[c] = r
      BY <1>8, <2>1, ChildrenOf
    <3> QED
      BY <1>8, <1>9, <2>1, <3>1 DEF Edge
  <2>2. CASE c = r
    <3>1. sent'[c] = <<own>> /\ Len(sent'[c]) = 1 /\ ParentOf[r] # r
      BY <1>1, <1>3, <1>4, <2>2, ChildrenOf
    <3> QED
      BY <1>1, <1>5, <1>9, <2>2, <3>1 DEF Edge
  <2>3. CASE c # r /\ c \notin Children(r)
    <3>1. sent'[c] = sent[c] /\ ParentOf[c] # r /\ (outstanding'[c] <=> outstanding[c])
          /\ (outstanding'[ParentOf[c]] <=> outstanding[ParentOf[c]])
      BY <1>4, <1>5, <1>9, <2>3, ChildrenOf
    <3> QED
      BY <1>5, <3>1 DEF Edge, LastSent
  <2> QED
    BY <2>1, <2>2, <2>3
<1>11. \A p \in Procs \ {r} : Heard(p)' = Heard(p)
  <2> SUFFICES ASSUME NEW p \in Procs \ {r}, NEW c \in Children(p)
               PROVE  requests'[c] = 0 /\ ~outstanding'[c] /\ sent'[c] = <<>> <=>
                      requests[c] = 0 /\ ~outstanding[c] /\ sent[c] = <<>>
    BY DEF Heard, Children
  <2>1. c \in Procs \ {Top} /\ c \notin seen
    BY ChildrenOf
  <2> QED
    BY <1>3, <1>4, <1>9, <2>1
<1>12. \A p \in Procs \ {r} : Ended(p)' = Ended(p)
  <2> SUFFICES ASSUME NEW p \in Procs \ {r}, NEW c \in Children(p)
               PROVE  loop'[c] = "done" /\ sent'[c] = <<>> <=> loop[c] = "done" /\ sent[c] = <<>>
    BY DEF Ended, Children
  <2>1. c \in Procs \ {Top} /\ c \notin seen
    BY ChildrenOf
  <2> QED
    BY <1>4, <2>1
<1>13. \A p \in Procs \ {r} : sum'[p] = sum[p]
  BY <1>4 DEF SumTypes
<1>14. ASSUME NEW p \in Procs
       PROVE  Counted(p)'
  <2>1. CASE p = r
    BY <1>9, <2>1 DEF Counted
  <2>2. CASE p # r
    BY <1>9, <1>11, <1>12, <1>13, <2>2 DEF Counted, EdgesInv
  <2> QED
    BY <2>1, <2>2
<1>15. requests'[Top] = 0 /\ sent'[Top] = <<>>
  BY <1>4, <1>6 DEF EdgesInv, TreeAssumption
<1>16. EdgesInv'
  BY <1>10, <1>14, <1>15 DEF EdgesInv
<1> QED
  BY <1>2, <1>4, <1>8, <1>16

\* A rank past the barrier has nothing of a reduction, nor has its part of the tree.
LEMMA EdgesPasses ==
    ASSUME TreeAssumption, SumTypes, BarrierInv, EdgesInv, NEW r \in Procs,
           loop[r] = "cleanup", ~outstanding[r], r = Top \/ Past(ParentOf[r]),
           loop' = [loop EXCEPT ![r] = "sync"],
           sum' = [sum EXCEPT ![r] = Fresh(objects[r], objects[r])],
           UNCHANGED <<outstanding, requests, sent>>
    PROVE  /\ EdgesInv' /\ sent[r] = <<>>
           /\ \A c \in Children(r) : ~Past(c) /\ sent[c] = <<>>
<1>1. /\ loop'[r] = "sync" /\ sum'[r] = Fresh(objects[r], objects[r])
      /\ \A p \in Procs \ {r} : loop'[p] = loop[p] /\ sum'[p] = sum[p]
  BY DEF SumTypes
<1>2. \A c \in Procs \ {Top} : Edge(c) /\ ParentOf[c] \in Procs
  BY DEF EdgesInv, TreeAssumption
<1>3. sent[r] = <<>> /\ (r # Top => loop[ParentOf[r]] # "done" /\ ParentOf[r] # r)
  <2>1. CASE r = Top
    BY <2>1 DEF EdgesInv
  <2>2. CASE r # Top
    <3>1. ~outstanding[ParentOf[r]]
      BY <1>2, <2>2 DEF BarrierInv, Ready
    <3> QED
      BY <1>2, <2>2, <3>1, ChildrenOf DEF Edge, LastSent
  <2> QED
    BY <2>1, <2>2
<1>4. \A c \in Children(r) : ~Past(c) /\ sent[c] = <<>> /\ c \in Procs \ {Top} /\ c # r
  <2> SUFFICES ASSUME NEW c \in Children(r)
               PROVE  ~Past(c) /\ sent[c] = <<>> /\ c \in Procs \ {Top} /\ c # r
    OBVIOUS
  <2>1. c \in Procs \ {Top} /\ c # r /\ ParentOf[c] = r
    BY ChildrenOf
  <2>2. Past(c) => Past(r)
    BY <2>1 DEF BarrierInv
  <2> QED
    BY <1>2, <2>1, <2>2 DEF Edge, LastSent, Past
<1>5. ASSUME NEW c \in Procs \ {Top}
      PROVE  Edge(c)'
  <2>1. CASE c = r
    BY <1>1, <1>2, <1>3, <2>1 DEF Edge
  <2>2. CASE c \in Children(r)
    BY <1>1, <1>2, <1>4, <2>2, ChildrenOf DEF Edge
  <2>3. CASE c # r /\ c \notin Children(r)
    BY <1>1, <1>2, <2>3, ChildrenOf DEF Edge, LastSent
  <2> QED
    BY <2>1, <2>2, <2>3
<1>6. \A p \in Procs : Heard(p)' = Heard(p)
  BY DEF Heard, Children
<1>7. \A p \in Procs : Ended(p)' = Ended(p)
  <2> SUFFICES ASSUME NEW p \in Procs, NEW c \in Children(p)
               PROVE  loop'[c] = "done" <=> loop[c] = "done"
    BY DEF Ended, Children
  <2> QED
    BY <1>1, ChildrenOf
<1>8. Ended(r) = {}
  BY <1>4 DEF Ended, Past
<1>9. ASSUME NEW p \in Procs
      PROVE  Counted(p)'
  <2>1. CASE p = r
    <3>1. Cardinality(Ended(r)') = 0
      BY <1>7, <1>8, FS_EmptySet
    <3> QED
      BY <1>1, <2>1, <3>1 DEF Counted, Fresh
  <2>2. CASE p # r
    BY <1>1, <1>6, <1>7, <2>2 DEF Counted, EdgesInv
  <2> QED
    BY <2>1, <2>2
<1> QED
  BY <1>3, <1>4, <1>5, <1>9 DEF EdgesInv

\* What a rank that waits for its children in the last reduction sees is of that one.
LEMMA EdgesReceive ==
    ASSUME TreeAssumption, SumTypes, BarrierInv, EdgesInv, NEW r \in Procs, loop[r] = "sync",
           NEW c \in Children(r), sent[c] # <<>>,
           sum' = [sum EXCEPT ![r] = With(r, {c})],
           \A p \in Procs : sent'[p] = IF p = c THEN Tail(sent[p]) ELSE sent[p],
           UNCHANGED <<loop, outstanding, requests>>
    PROVE  /\ EdgesInv' /\ LastSent(c) /\ Head(sent[c]) \in Numbers
           /\ \A p \in Procs : sent'[p] = IF p = c THEN <<>> ELSE sent[p]
           /\ With(r, {c}).total = sum[r].total + Head(sent[c]).total
           /\ c \in Procs \ {Top} /\ c # r
<1>1. \A p \in Procs \ {Top} : Edge(p) /\ ParentOf[p] \in Procs
  BY DEF EdgesInv, TreeAssumption
<1>2. c \in Procs \ {Top} /\ c # r /\ ParentOf[c] = r
  BY ChildrenOf
<1>3. ~outstanding[r]
  BY DEF BarrierInv, Ready, Past
<1>4. LastSent(c)
  BY <1>1, <1>2, <1>3 DEF Edge
<1>5. Tail(sent[c]) = <<>> /\ Head(sent[c]) \in Numbers
  <2>1. sent[c] \in Seq(Numbers)
    BY <1>2 DEF SumTypes
  <2>2. Len(sent[c]) <= 1
    BY <1>1, <1>2 DEF Edge
  <2> QED
    BY <2>1, <2>2, OneMessage, HeadTailProperties
<1>6. \A p \in Procs : sent'[p] = IF p = c THEN <<>> ELSE sent[p]
  BY <1>5
<1>7. PICK Q : Q = {c}
  OBVIOUS
<1>8. /\ sum[r].valid /\ sum[r].user = sum[r].total /\ sum[r].replies = Cardinality(Ended(r))
  BY DEF EdgesInv, Counted
<1>9. /\ With(r, {c}).replies = sum[r].replies + 1 /\ With(r, {c}).valid
      /\ With(r, {c}).total = sum[r].total + Head(sent[c]).total
      /\ With(r, {c}).user = sum[r].user + Head(sent[c]).user
  <2>1. Q \in SUBSET Children(r) /\ \A x \in Q : sent[x] # <<>> /\ Head(sent[x]).valid
    BY <1>4, <1>7 DEF LastSent
  <2>2. /\ With(r, Q).replies = sum[r].replies + Cardinality(Q) /\ With(r, Q).valid
        /\ With(r, Q).total = sum[r].total + Total(Q)
        /\ With(r, Q).user = sum[r].user + UserTotal(Q)
    BY <1>8, <2>1, TakenUp
  <2>3. Cardinality(Q) = 1
    BY <1>7, FS_Singleton
  <2>4. Total(Q) = Head(sent[c]).total
    <3>1. PICK f : f = [x \in Q |-> Head(sent[x]).total]
      OBVIOUS
    <3>2. f[c] = Head(sent[c]).total /\ f[c] \in Nat
      BY <1>5, <1>7, <3>1 DEF Numbers
    <3>3. SumOver(f, {c}) = f[c]
      BY <3>2, SumOne
    <3> QED
      BY <1>7, <3>1, <3>2, <3>3 DEF Total
  <2>5. UserTotal(Q) = Head(sent[c]).user
    <3>1. PICK f : f = [x \in Q |-> Head(sent[x]).user]
      OBVIOUS
    <3>2. f[c] = Head(sent[c]).user /\ f[c] \in Nat
      BY <1>5, <1>7, <3>1 DEF Numbers
    <3>3. SumOver(f, {c}) = f[c]
      BY <3>2, SumOne
    <3> QED
      BY <1>7, <3>1, <3>2, <3>3 DEF UserTotal
  <2> QED
    BY <1>7, <2>2, <2>3, <2>4, <2>5
<1>10. \A p \in Procs \ {r} : sum'[p] = sum[p]
  BY DEF SumTypes
<1>11. ASSUME NEW p \in Procs \ {Top}
       PROVE  Edge(p)'
  <2>1. CASE p = c
    <3>1. sent'[p] = <<>> /\ Len(sent'[p]) = 0
      BY <1>6, <2>1
    <3> QED
      BY <1>1, <1>2, <2>1, <3>1 DEF Edge
  <2>2. CASE p # c
    BY <1>1, <1>6, <2>2 DEF Edge, LastSent
  <2> QED
    BY <2>1, <2>2
<1>12. Ended(r)' = Ended(r) \cup {c}
  <2> SUFFICES ASSUME NEW p \in Children(r)
               PROVE  loop'[p] = "done" /\ sent'[p] = <<>> <=>
                      (loop[p] = "done" /\ sent[p] = <<>>) \/ p = c
    BY DEF Ended, Children
  <2>1. p \in Procs
    BY ChildrenOf
  <2> QED
    BY <1>4, <1>6, <2>1 DEF LastSent
<1>13. Cardinality(Ended(r) \cup {c}) = Cardinality(Ended(r)) + 1
  <2>1. Ended(r) \subseteq Children(r) /\ c \notin Ended(r)
    BY DEF Ended
  <2>2. IsFiniteSet(Ended(r))
    BY <2>1, SomeChildren
  <2> QED
    BY <2>1, <2>2, FS_AddElement
<1>14. \A p \in Procs \ {r} : Heard(p)' = Heard(p) /\ Ended(p)' = Ended(p)
  <2> SUFFICES ASSUME NEW p \in Procs \ {r}, NEW x \in Children(p)
               PROVE  sent'[x] = sent[x]
    BY DEF Heard, Ended, Children
  <2>1. x \in Procs /\ x # c
    BY <1>2, ChildrenOf
  <2> QED
    BY <1>6, <2>1
<1>15. ASSUME NEW p \in Procs
       PROVE  Counted(p)'
  <2>1. CASE p = r
    <3>1. sum'[r] = With(r, {c})
      BY DEF SumTypes
    <3> QED
      BY <1>3, <1>4, <1>8, <1>9, <1>12, <1>13, <2>1, <3>1 DEF Counted, LastSent
  <2>2. CASE p # r
    BY <1>10, <1>14, <2>2 DEF Counted, EdgesInv
  <2> QED
    BY <2>1, <2>2
<1>16. requests'[Top] = 0 /\ sent'[Top] = <<>>
  BY <1>2, <1>6 DEF EdgesInv, TreeAssumption
<1>17. EdgesInv'
  BY <1>11, <1>15, <1>16 DEF EdgesInv
<1> QED
  BY <1>2, <1>4, <1>5, <1>6, <1>9, <1>17

LEMMA EdgesSyncSend ==
    ASSUME TreeAssumption, SumTypes, BarrierInv, EdgesInv, NEW r \in Procs, SyncSend(r)
    PROVE  /\ EdgesInv' /\ sent[r] = <<>> /\ (r # Top => sent'[r] = <<sum[r]>>)
           /\ \A p \in Procs : p # r \/ r = Top => sent'[p] = sent[p]
           /\ \A c \in Children(r) : loop[c] = "done" /\ sent[c] = <<>>
<1>1. /\ loop[r] = "sync" /\ sum[r].replies = Expected(r)
      /\ loop' = [loop EXCEPT ![r] = "done"]
      /\ \A p \in Procs : sent'[p] = IF p = r /\ r # Top THEN sent[p] \o <<sum[r]>>
                                     ELSE sent[p]
      /\ UNCHANGED <<outstanding, sum, requests>>
  BY SyncSendEffect
<1>2. loop'[r] = "done" /\ \A p \in Procs \ {r} : loop'[p] = loop[p]
  BY <1>1 DEF SumTypes
<1>3. \A c \in Procs \ {Top} : Edge(c) /\ ParentOf[c] \in Procs
  BY DEF EdgesInv, TreeAssumption
<1>4. ~outstanding[r] /\ (r # Top => Past(ParentOf[r]) /\ ~outstanding[ParentOf[r]])
  BY <1>1, <1>3 DEF BarrierInv, Ready, Past
<1>5. sent[r] = <<>> /\ (r # Top => loop[ParentOf[r]] = "sync" /\ ParentOf[r] # r)
  <2>1. CASE r = Top
    BY <2>1 DEF EdgesInv
  <2>2. CASE r # Top
    BY <1>1, <1>3, <1>4, <2>2, ChildrenOf DEF Edge, LastSent, Past
  <2> QED
    BY <2>1, <2>2
<1>6. r # Top => sent'[r] = <<sum[r]>> /\ Len(sent'[r]) = 1 /\ Head(sent'[r]) = sum[r]
                 /\ sent'[r] # <<>>
  <2>1. PICK m \in Numbers : m = sum[r]
    BY DEF SumTypes
  <2>2. /\ <<>> \o <<m>> = <<m>> /\ Len(<<m>>) = 1 /\ Head(<<m>>) = m /\ <<m>> # <<>>
    BY NewMessage
  <2>3. r # Top => sent'[r] = <<>> \o <<m>>
    BY <1>1, <1>5, <2>1
  <2> QED
    BY <2>1, <2>2, <2>3
<1>7. sum[r].valid /\ sum[r].user = sum[r].total /\ sum[r].replies = Cardinality(Ended(r))
  BY <1>1 DEF EdgesInv, Counted
<1>8. \A c \in Children(r) : loop[c] = "done" /\ sent[c] = <<>> /\ c \in Procs \ {Top} /\ c # r
  <2>1. Ended(r) \subseteq Children(r)
    BY DEF Ended
  <2>2. Ended(r) = Children(r)
    BY <1>1, <1>7, <2>1, SomeChildren
  <2> QED
    BY <2>2, ChildrenOf DEF Ended
<1>9. \A p \in Procs : p # r \/ r = Top => sent'[p] = sent[p]
  BY <1>1
<1>10. ASSUME NEW c \in Procs \ {Top}
       PROVE  Edge(c)'
  <2>1. CASE c = r
    <3>1. requests[r] <= 1 /\ requests[r] # 1 /\ requests' = requests
      BY <1>1, <1>3, <1>4, <2>1 DEF Edge
    <3>2. ~outstanding'[r] /\ ~outstanding'[ParentOf[r]] /\ loop'[ParentOf[r]] = "sync"
      BY <1>1, <1>2, <1>3, <1>4, <1>5, <2>1
    <3>3. LastSent(r)'
      BY <1>2, <1>6, <1>7, <2>1, <3>2 DEF LastSent
    <3> QED
      <4>3. Len(sent'[r]) = 1
        BY <1>6, <2>1, Zenon
      <4>1. Len(sent'[c]) <= 1
        BY <2>1, <4>3
      <4>2. requests'[c] <= 1 /\ requests'[c] # 1
        BY <2>1, <3>1
      <4> QED
        BY <2>1, <3>2, <3>3, <4>1, <4>2 DEF Edge
  <2>2. CASE c \in Children(r)
    BY <1>1, <1>2, <1>3, <1>8, <1>9, <2>2, ChildrenOf DEF Edge
  <2>3. CASE c # r /\ c \notin Children(r)
    BY <1>1, <1>2, <1>3, <1>9, <2>3, ChildrenOf DEF Edge, LastSent
  <2> QED
    BY <2>1, <2>2, <2>3
<1>11. \A p \in Procs : outstanding[p] => Heard(p)' = Heard(p)
  <2> SUFFICES ASSUME NEW p \in Procs, outstanding[p], NEW c \in Children(p)
               PROVE  sent'[c] = sent[c]
    BY <1>1 DEF Heard, Children
  <2>1. c \in Procs \ {Top} /\ ParentOf[c] = p
    BY ChildrenOf
  <2> QED
    BY <1>4, <1>9, <2>1
<1>12. \A p \in Procs : Ended(p)' = Ended(p)
  <2> SUFFICES ASSUME NEW p \in Procs, NEW c \in Children(p)
               PROVE  loop'[c] = "done" /\ sent'[c] = <<>> <=> loop[c] = "done" /\ sent[c] = <<>>
    BY DEF Ended, Children
  <2>1. c \in Procs \ {Top}
    BY ChildrenOf
  <2> QED
    BY <1>1, <1>2, <1>6, <1>9, <2>1
<1>13. \A p \in Procs : Counted(p)'
  BY <1>1, <1>2, <1>11, <1>12 DEF Counted, EdgesInv
<1>14. requests'[Top] = 0 /\ sent'[Top] = <<>>
  BY <1>1, <1>9 DEF EdgesInv, TreeAssumption
<1>15. EdgesInv'
  BY <1>10, <1>13, <1>14 DEF EdgesInv
<1> QED
  BY <1>5, <1>6, <1>8, <1>9, <1>15

LEMMA EdgesNext ==
    ASSUME TreeAssumption, SumTypes, BarrierInv, EdgesInv, NEW r \in Procs,
           \/ Process(r) \/ Leave(r) \/ StartReduce(r) \/ Decline(r) \/ Reduce(r)
           \/ BarrierTest(r) \/ SyncReceive(r) \/ SyncSend(r)
    PROVE  EdgesInv'
<1>1. CASE Process(r)
  <2>1. UNCHANGED <<loop, outstanding, sum, requests, sent>>
    BY <1>1 DEF Process, reduction
  <2> QED
    BY <2>1, EdgesKept
<1>2. CASE Leave(r)
  <2>1. /\ UNCHANGED <<outstanding, sum, requests, sent>> /\ loop[r] = "work"
        /\ loop' = [loop EXCEPT ![r] = "cleanup"]
    BY <1>2 DEF Leave, reduction
  <2>2. \A p \in Procs : /\ loop'[p] = "done" <=> loop[p] = "done"
                         /\ loop'[p] = "sync" <=> loop[p] = "sync"
    BY <2>1 DEF SumTypes
  <2> QED
    BY <2>1, <2>2, EdgesKept
<1>3. CASE StartReduce(r)
  BY <1>3, EdgesStart
<1>4. CASE Decline(r)
  BY <1>4, EdgesDecline
<1>5. CASE Reduce(r)
  <2>1. PICK seen \in SUBSET Children(r) :
            /\ \A c \in seen : sent[c] # <<>>
            /\ OwnSum(r, seen) \in Numbers
            /\ Waits(r, seen) \/ SendsUp(r, seen)
    BY <1>5, ReduceEffect
  <2>2. loop[r] \in {"work", "cleanup"} /\ outstanding[r] /\ UNCHANGED <<loop, requests>>
    BY <1>5, ReduceEffect
  <2>3. CASE Waits(r, seen)
    BY <2>1, <2>2, <2>3, EdgesWaits
  <2>4. CASE SendsUp(r, seen)
    BY <2>1, <2>2, <2>4, EdgesSendsUp
  <2> QED
    BY <2>1, <2>3, <2>4
<1>6. CASE BarrierTest(r)
  <2>1. PICK heard \in SUBSET {c \in Children(r) : arrived[c]}, all \in BOOLEAN, up \in BOOLEAN :
            /\ Cardinality(heard) \in Nat /\ IsFiniteSet(heard)
            /\ all <=> met[r].replies + Cardinality(heard) = Expected(r)
            /\ up <=> all /\ r # Top /\ ~met[r].up
            /\ arrived' = [p \in Procs |-> (arrived[p] /\ p \notin heard) \/ (p = r /\ up)]
            /\ Hears(r, heard, all, up) \/ Passes(r, all, up)
    BY <1>6, BarrierEffect
  <2>2. /\ loop[r] = "cleanup" /\ ~outstanding[r]
        /\ UNCHANGED <<outstanding, unworked, requests, sent>>
    BY <1>6, BarrierEffect
  <2>3. CASE Hears(r, heard, all, up)
    <3>1. UNCHANGED <<loop, sum>>
      BY <2>3 DEF Hears
    <3> QED
      BY <2>2, <3>1, EdgesKept
  <2>4. CASE Passes(r, all, up)
    <3>1. r = Top \/ Past(ParentOf[r])
      BY <2>1, <2>2, <2>4, BarrierPasses
    <3>2. /\ loop' = [loop EXCEPT ![r] = "sync"]
          /\ sum' = [sum EXCEPT ![r] = Fresh(objects[r], objects[r])]
      BY <2>4 DEF Passes
    <3> QED
      BY <2>2, <3>1, <3>2, EdgesPasses
  <2> QED
    BY <2>1, <2>3, <2>4
<1>7. CASE SyncReceive(r)
  <2>1. /\ loop[r] = "sync" /\ UNCHANGED <<loop, outstanding, requests>>
        /\ \E c \in Children(r) :
              /\ sent[c] # <<>>
              /\ sum' = [sum EXCEPT ![r] = With(r, {c})]
              /\ \A p \in Procs : sent'[p] = IF p = c THEN Tail(sent[p]) ELSE sent[p]
    BY <1>7, SyncReceiveEffect
  <2> QED
    BY <2>1, EdgesReceive
<1>8. CASE SyncSend(r)
  BY <1>8, EdgesSyncSend
<1> QED
  BY <1>1, <1>2, <1>3, <1>4, <1>5, <1>6, <1>7, <1>8

-----------------------------------------------------------------------------
(* The rounds                                                                *)

LEMMA TopFirst ==
    ASSUME TreeAssumption, SumTypes, BarrierInv, EdgesInv
    PROVE  /\ \A r \in Procs : outstanding[r] => outstanding[Top]
           /\ \A r \in Procs : Past(r) => Past(Top)
           /\ ~outstanding[Top] /\ ~Past(Top) =>
                 \A r \in Procs : ~outstanding[r] /\ requests[r] = 0 /\ sent[r] = <<>>
<1>1. Top \in Procs /\ \A c \in Procs \ {Top} : Edge(c) /\ ParentOf[c] \in Procs
  BY DEF EdgesInv, TreeAssumption
<1>2. \A r \in Procs : outstanding[r] => outstanding[Top]
  <2> DEFINE S == {r \in Procs : outstanding[r] => outstanding[Top]}
  <2>1. Top \in S /\ \A c \in Procs \ {Top} : ParentOf[c] \in S => c \in S
    BY <1>1 DEF Edge
  <2>2. S = Procs
    <3> HIDE DEF S
    <3>1. S \in SUBSET Procs
      BY DEF S
    <3> QED
      BY <2>1, <3>1, FromTop
  <2> QED
    BY <2>2
<1>3. \A r \in Procs : Past(r) => Past(Top)
  <2> DEFINE S == {r \in Procs : Past(r) => Past(Top)}
  <2>1. Top \in S /\ \A c \in Procs \ {Top} : ParentOf[c] \in S => c \in S
    BY <1>1 DEF BarrierInv
  <2>2. S = Procs
    <3> HIDE DEF S
    <3>1. S \in SUBSET Procs
      BY DEF S
    <3> QED
      BY <2>1, <3>1, FromTop
  <2> QED
    BY <2>2
<1>4. ASSUME ~outstanding[Top], ~Past(Top), NEW r \in Procs
      PROVE  ~outstanding[r] /\ requests[r] = 0 /\ sent[r] = <<>>
  <2>1. CASE r = Top
    BY <1>4, <2>1 DEF EdgesInv
  <2>2. CASE r # Top
    <3>1. ~outstanding[r] /\ ~outstanding[ParentOf[r]] /\ ~Past(r)
      BY <1>1, <1>2, <1>3, <1>4, <2>2
    <3>2. requests[r] \in Nat
      BY DEF SumTypes
    <3> QED
      BY <1>1, <2>2, <3>1, <3>2 DEF Edge, LastSent, Past
  <2> QED
    BY <2>1, <2>2
<1> QED
  BY <1>2, <1>3, <1>4

\* What a rank holds of the sums of a reduction, in its buffer or on the way up.
Held == [r \in Procs |-> IF outstanding[r] THEN sum[r].total
                         ELSE IF sent[r] # <<>> THEN Head(sent[r]).total ELSE 0]
HeldUser == [r \in Procs |-> IF outstanding[r] THEN sum[r].user
                             ELSE IF sent[r] # <<>> THEN Head(sent[r]).user ELSE 0]
AllValid == \A r \in Procs : /\ outstanding[r] => sum[r].valid
                             /\ sent[r] # <<>> => Head(sent[r]).valid
Asked == {r \in Procs : outstanding[r]}

\* The ranks g have answered the reduction that is on its way: each read the user's
\* count u at its start and its own count n at its end, and what is held is the sum.
Answers(n, u, g) ==
    /\ \A p \in g : u[p] <= n[p] /\ ~outstanding[p] /\ Children(p) \subseteq g
    /\ \A c \in Procs \ {Top} :
          /\ c \in g => ParentOf[c] \in g \/ outstanding[ParentOf[c]]
          /\ outstanding[ParentOf[c]] => (c \in g <=> requests[c] = 0 /\ ~outstanding[c])
    /\ SumOver(Held, Procs) = SumOver(n, g)
    /\ SumOver(HeldUser, Procs) = SumOver(u, g \cup Asked)

\* The counts as the ranks last gave them are no more than there are, and no less than
\* what was printed.
Round(n, u, g) ==
    /\ \A p \in Procs : n[p] <= objects[p] /\ u[p] <= objects[p]
    /\ \A i \in DOMAIN printed : /\ printed[i].total <= SumOver(n, Procs)
                                 /\ printed[i].user <= SumOver(u, Procs)
    /\ outstanding[Top] /\ AllValid => Answers(n, u, g)
RoundInv == \E n, u \in [Procs -> Nat], g \in SUBSET Procs : Round(n, u, g)

LEMMA HeldTypes ==
    ASSUME SumTypes
    PROVE  /\ \A r \in Procs : sent[r] # <<>> => Head(sent[r]) \in Numbers
           /\ \A r \in Procs : Held[r] \in Nat /\ HeldUser[r] \in Nat
<1>1. \A r \in Procs : sent[r] # <<>> => Head(sent[r]) \in Numbers
  <2> SUFFICES ASSUME NEW r \in Procs, sent[r] # <<>>
               PROVE  Head(sent[r]) \in Numbers
    OBVIOUS
  <2>1. sent[r] \in Seq(Numbers)
    BY DEF SumTypes
  <2> QED
    BY <2>1, HeadTailProperties
<1>2. \A r \in Procs : sum[r] \in Numbers
  BY DEF SumTypes
<1> QED
  BY <1>1, <1>2 DEF Held, HeldUser, Numbers

LEMMA RoundInit == ASSUME TreeAssumption, SumInit PROVE RoundInv
<1>1. /\ \A r \in Procs : objects[r] = 0 /\ ~outstanding[r]
      /\ printed = <<>> /\ Top \in Procs
  BY DEF SumInit, TreeAssumption
<1>2. PICK n \in [Procs -> Nat] : n = [p \in Procs |-> 0]
  OBVIOUS
<1>3. PICK g \in SUBSET Procs : g = {}
  OBVIOUS
<1>4. Round(n, n, g)
  BY <1>1, <1>2 DEF Round
<1> QED
  BY <1>4 DEF RoundInv

\* A call that has nothing to do with what is held.
LEMMA RoundKept ==
    ASSUME TreeAssumption, SumTypes, SumTypes', RoundInv,
           UNCHANGED <<outstanding, requests, sent, printed>>,
           \A r \in Procs : /\ outstanding[r] => sum'[r] = sum[r]
                            /\ objects[r] <= objects'[r]
    PROVE  RoundInv'
<1>1. PICK n \in [Procs -> Nat], u \in [Procs -> Nat], g \in SUBSET Procs : Round(n, u, g)
  BY DEF RoundInv
<1>2. Held' = Held /\ HeldUser' = HeldUser /\ Asked' = Asked /\ (AllValid' => AllValid)
  BY DEF Held, HeldUser, Asked, AllValid
<1>3. \A p \in Procs : n[p] <= objects'[p] /\ u[p] <= objects'[p]
  <2> SUFFICES ASSUME NEW p \in Procs
               PROVE  n[p] <= objects'[p] /\ u[p] <= objects'[p]
    OBVIOUS
  <2>1. n[p] \in Nat /\ u[p] \in Nat /\ objects[p] \in Nat /\ objects'[p] \in Nat
    BY DEF SumTypes
  <2> QED
    BY <1>1, <2>1 DEF Round
<1>4. Answers(n, u, g) => Answers(n, u, g)'
  BY <1>2 DEF Answers, Children
<1>5. Round(n, u, g)'
  BY <1>1, <1>2, <1>3, <1>4 DEF Round
<1> QED
  BY <1>5 DEF RoundInv

\* What was printed stays below counts that only grow.
LEMMA StillPrinted ==
    ASSUME TreeAssumption, SumTypes, NEW n \in [Procs -> Nat], NEW m \in [Procs -> Nat],
           NEW u \in [Procs -> Nat], NEW v \in [Procs -> Nat],
           \A p \in Procs : n[p] <= m[p] /\ u[p] <= v[p],
           \A i \in DOMAIN printed : /\ printed[i].total <= SumOver(n, Procs)
                                     /\ printed[i].user <= SumOver(u, Procs)
    PROVE  /\ SumOver(m, Procs) \in Nat /\ SumOver(v, Procs) \in Nat
           /\ \A i \in DOMAIN printed : /\ printed[i] \in Numbers
                                        /\ printed[i].total <= SumOver(m, Procs)
                                        /\ printed[i].user <= SumOver(v, Procs)
<1>1. IsFiniteSet(Procs)
  BY DEF TreeAssumption
<1>2. /\ SumOver(n, Procs) \in Nat /\ SumOver(m, Procs) \in Nat
      /\ SumOver(u, Procs) \in Nat /\ SumOver(v, Procs) \in Nat
  BY <1>1, UnitsFinite
<1>3. SumOver(n, Procs) <= SumOver(m, Procs)
  BY <1>1, SumLess
<1>4. SumOver(u, Procs) <= SumOver(v, Procs)
  BY <1>1, SumLess
<1>5. \A i \in DOMAIN printed : printed[i] \in Numbers
  BY ElementOfSeq, LenProperties DEF SumTypes
<1>6. \A i \in DOMAIN printed : printed[i].total \in Nat /\ printed[i].user \in Nat
  BY <1>5 DEF Numbers
<1> QED
  BY <1>2, <1>3, <1>4, <1>5, <1>6

LEMMA RoundStartTop ==
    ASSUME TreeAssumption, SumTypes, SumTypes', BarrierInv, EdgesInv, RoundInv, StartReduce(Top)
    PROVE  RoundInv'
<1>1. /\ loop[Top] = "work" /\ ~outstanding[Top]
      /\ outstanding' = [outstanding EXCEPT ![Top] = TRUE]
      /\ sum' = [sum EXCEPT ![Top] = Fresh(0, objects[Top])]
      /\ \A p \in Procs : requests'[p] = IF p = Top THEN requests[p]
                                         ELSE IF p \in Children(Top) THEN requests[p] + 1
                                         ELSE requests[p]
      /\ UNCHANGED <<objects, sent, printed>>
  BY StartEffect DEF TreeAssumption
<1>2. Top \in Procs /\ IsFiniteSet(Procs) /\ \A c \in Procs \ {Top} : ParentOf[c] \in Procs
  BY DEF TreeAssumption
<1>3. \A r \in Procs : ~outstanding[r] /\ requests[r] = 0 /\ sent[r] = <<>>
  BY <1>1, TopFirst DEF Past
<1>4. PICK n \in [Procs -> Nat], u \in [Procs -> Nat], g \in SUBSET Procs : Round(n, u, g)
  BY DEF RoundInv
<1>5. PICK m \in Nat : m = objects[Top]
  BY <1>2 DEF SumTypes
<1>6. PICK v \in [Procs -> Nat] : v = [u EXCEPT ![Top] = m]
  BY <1>5
<1>7. PICK e \in SUBSET Procs : e = {}
  OBVIOUS
<1>8. \A p \in Procs : u[p] <= v[p] /\ v[p] <= objects'[p] /\ n[p] <= objects'[p] /\ n[p] <= n[p]
  <2> SUFFICES ASSUME NEW p \in Procs
               PROVE  u[p] <= v[p] /\ v[p] <= objects[p] /\ n[p] <= objects[p] /\ n[p] <= n[p]
    BY <1>1
  <2>1. n[p] \in Nat /\ u[p] \in Nat /\ objects[p] \in Nat /\ u[p] <= objects[p] /\ n[p] <= objects[p]
    BY <1>4 DEF SumTypes, Round
  <2> QED
    BY <1>5, <1>6, <2>1
<1>9. \A i \in DOMAIN printed : /\ printed[i].total <= SumOver(n, Procs)
                                /\ printed[i].user <= SumOver(v, Procs)
  BY <1>4, <1>8, StillPrinted DEF Round
<1>10. /\ \A p \in Procs : outstanding'[p] <=> p = Top
       /\ sum'[Top].total = 0 /\ sum'[Top].user = m
  BY <1>1, <1>2, <1>3, <1>5 DEF SumTypes, Fresh
<1>11. /\ \A p \in Procs : Held'[p] = 0 /\ HeldUser'[p] = IF p = Top THEN m ELSE 0
       /\ Asked' = {Top}
  BY <1>1, <1>2, <1>3, <1>10 DEF Held, HeldUser, Asked
<1>12. SumOver(Held', Procs) = SumOver(n, e)
  <2>1. PICK h : h = Held'
    OBVIOUS
  <2>2. SumOver(h, Procs) = 0
    BY <1>11, <2>1, SumZero
  <2>3. SumOver(n, e) = 0
    BY <1>7, SumZero
  <2> QED
    BY <2>1, <2>2, <2>3
<1>13. SumOver(HeldUser', Procs) = SumOver(v, e \cup Asked')
  <2>1. PICK h : h = HeldUser'
    OBVIOUS
  <2>2. \A p \in Procs : h[p] = IF p = Top THEN m ELSE 0
    BY <1>11, <2>1
  <2>3. PICK R : R = Procs \ {Top}
    OBVIOUS
  <2>4. IsFiniteSet(R) /\ Top \notin R /\ R \cup {Top} = Procs
    BY <1>2, <2>3, FS_Subset
  <2>5. SumOver(h, R \cup {Top}) = SumOver(h, R) + h[Top]
    <3>1. \A x \in R \cup {Top} : h[x] \in Nat
      BY <1>2, <2>2, <2>4
    <3> QED
      BY <2>4, <3>1, SumWith
  <2>6. SumOver(h, R) = 0
    BY <2>2, <2>3, SumZero
  <2>7. SumOver(v, {Top}) = m
    <3>1. v[Top] = m
      BY <1>2, <1>6
    <3> QED
      BY <3>1, SumOne
  <2>8. e \cup Asked' = {Top}
    BY <1>7, <1>11
  <2> QED
    <3>1. SumOver(h, Procs) = m
      <4>1. SumOver(h, Procs) = SumOver(h, R \cup {Top})
        BY <2>4
      <4>2. h[Top] = m
        BY <1>2, <2>2
      <4> QED
        BY <2>5, <2>6, <4>1, <4>2
    <3>2. SumOver(v, e \cup Asked') = m
      BY <2>7, <2>8
    <3> QED
      BY <2>1, <3>1, <3>2
<1>14. Answers(n, v, e)'
  <2>1. ASSUME NEW c \in Procs \ {Top}, outstanding'[ParentOf[c]]
        PROVE  requests'[c] = 1
    <3>1. c \in Children(Top)
      BY <1>2, <1>10, <2>1 DEF Children
    <3>2. requests'[c] = requests[c] + 1
      BY <1>1, <3>1
    <3>3. requests[c] = 0
      BY <1>3
    <3> QED
      BY <3>2, <3>3
  <2> QED
    BY <1>7, <1>12, <1>13, <2>1 DEF Answers
<1>15. Round(n, v, e)'
  BY <1>1, <1>8, <1>9, <1>14 DEF Round
<1> QED
  BY <1>15 DEF RoundInv

LEMMA RoundStart ==
    ASSUME TreeAssumption, SumTypes, SumTypes', BarrierInv, EdgesInv, RoundInv,
           NEW r \in Procs \ {Top}, StartReduce(r)
    PROVE  RoundInv'
<1>1. /\ loop[r] = "work" /\ ~outstanding[r] /\ requests[r] > 0
      /\ outstanding' = [outstanding EXCEPT ![r] = TRUE]
      /\ sum' = [sum EXCEPT ![r] = Fresh(0, objects[r])]
      /\ \A p \in Procs : requests'[p] = IF p = r THEN requests[p] - 1
                                         ELSE IF p \in Children(r) THEN requests[p] + 1
                                         ELSE requests[p]
      /\ UNCHANGED <<objects, sent, printed>>
  BY StartEffect
<1>2. /\ IsFiniteSet(Procs) /\ Top \in Procs
      /\ \A c \in Procs \ {Top} : Edge(c) /\ ParentOf[c] \in Procs
  BY DEF TreeAssumption, EdgesInv
<1>3. /\ requests[r] = 1 /\ sent[r] = <<>> /\ outstanding[ParentOf[r]] /\ ParentOf[r] # r
      /\ \A c \in Children(r) : requests[c] = 0 /\ ~outstanding[c] /\ sent[c] = <<>>
  <2>1. requests[r] \in Nat
    BY DEF SumTypes
  <2> QED
    BY <1>1, <1>2, <2>1, EdgesStart DEF Edge
<1>4. PICK n \in [Procs -> Nat], u \in [Procs -> Nat], g \in SUBSET Procs : Round(n, u, g)
  BY DEF RoundInv
<1>5. PICK m \in Nat : m = objects[r]
  BY DEF SumTypes
<1>6. PICK v \in [Procs -> Nat] : v = [u EXCEPT ![r] = m]
  BY <1>5
<1>8. \A p \in Procs : u[p] <= v[p] /\ v[p] <= objects'[p] /\ n[p] <= objects'[p] /\ n[p] <= n[p]
  <2> SUFFICES ASSUME NEW p \in Procs
               PROVE  u[p] <= v[p] /\ v[p] <= objects[p] /\ n[p] <= objects[p] /\ n[p] <= n[p]
    BY <1>1
  <2>1. n[p] \in Nat /\ u[p] \in Nat /\ objects[p] \in Nat /\ u[p] <= objects[p] /\ n[p] <= objects[p]
    BY <1>4 DEF SumTypes, Round
  <2> QED
    BY <1>5, <1>6, <2>1
<1>9. \A i \in DOMAIN printed : /\ printed[i].total <= SumOver(n, Procs)
                                /\ printed[i].user <= SumOver(v, Procs)
  BY <1>4, <1>8, StillPrinted DEF Round
<1>10. /\ \A p \in Procs : outstanding'[p] <=> outstanding[p] \/ p = r
       /\ sum'[r].total = 0 /\ sum'[r].user = m /\ sum'[r].valid
       /\ \A p \in Procs \ {r} : sum'[p] = sum[p]
  BY <1>1, <1>5 DEF SumTypes, Fresh
<1>11. (outstanding[Top] /\ AllValid)' => outstanding[Top] /\ AllValid
  BY <1>1, <1>2, <1>3, <1>10 DEF AllValid
<1>12. ASSUME outstanding[Top], AllValid
       PROVE  Answers(n, v, g)'
  <2>1. Answers(n, u, g)
    BY <1>4, <1>12 DEF Round
  <2>2. /\ \A p \in g : u[p] <= n[p] /\ ~outstanding[p] /\ Children(p) \subseteq g
        /\ \A c \in Procs \ {Top} :
              /\ c \in g => ParentOf[c] \in g \/ outstanding[ParentOf[c]]
              /\ outstanding[ParentOf[c]] => (c \in g <=> requests[c] = 0 /\ ~outstanding[c])
        /\ SumOver(Held, Procs) = SumOver(n, g)
        /\ SumOver(HeldUser, Procs) = SumOver(u, g \cup Asked)
    BY <2>1 DEF Answers
  <2>3. r \notin g /\ \A c \in Children(r) : c \notin g
    <3>1. r \notin g
      BY <1>3, <2>2
    <3> QED
      BY <1>1, <2>2, <3>1, ChildrenOf
  <2>4. \A p \in g : v[p] <= n[p] /\ ~outstanding'[p] /\ Children(p) \subseteq g
    BY <1>6, <1>10, <2>2, <2>3
  <2>5. ASSUME NEW c \in Procs \ {Top}
        PROVE  /\ c \in g => ParentOf[c] \in g \/ outstanding'[ParentOf[c]]
               /\ outstanding'[ParentOf[c]] => (c \in g <=> requests'[c] = 0 /\ ~outstanding'[c])
    <3>1. ParentOf[c] \in Procs
      BY <1>2
    <3>2. c \in g => ParentOf[c] \in g \/ outstanding'[ParentOf[c]]
      BY <1>10, <2>2, <3>1
    <3>3. CASE c = r
      BY <1>10, <2>3, <3>2, <3>3
    <3>4. CASE c \in Children(r)
      <4>1. requests'[c] = 1
        <5>1. requests'[c] = requests[c] + 1 /\ requests[c] = 0
          BY <1>1, <1>3, <3>4, ChildrenOf
        <5> QED
          BY <5>1
      <4> QED
        BY <2>3, <3>2, <3>4, <4>1
    <3>5. CASE c # r /\ c \notin Children(r)
      <4>1. requests'[c] = requests[c] /\ ParentOf[c] # r
        BY <1>1, <3>5, ChildrenOf
      <4> QED
        BY <1>10, <2>2, <3>1, <3>2, <3>5, <4>1
    <3> QED
      BY <3>3, <3>4, <3>5
  <2>6. /\ Held' = Held
        /\ Held[r] = 0 /\ HeldUser[r] = 0 /\ HeldUser'[r] = m
        /\ \A p \in Procs \ {r} : HeldUser'[p] = HeldUser[p]
    BY <1>1, <1>3, <1>10 DEF Held, HeldUser
  <2>7. SumOver(HeldUser', Procs) = SumOver(HeldUser, Procs) + m
    <3>1. PICK f : f = HeldUser
      OBVIOUS
    <3>2. PICK h : h = HeldUser'
      OBVIOUS
    <3>3. \A x \in Procs : f[x] \in Nat
      BY <3>1, HeldTypes
    <3>4. h[r] = m /\ f[r] = 0 /\ \A p \in Procs \ {r} : h[p] = f[p]
      BY <2>6, <3>1, <3>2
    <3>5. PICK Q \in SUBSET Procs : Q = {}
      OBVIOUS
    <3>6. SumOver(f, Q) = 0
      BY <3>5, SumZero
    <3>7. /\ h[r] = f[r] + SumOver(f, Q) + m /\ r \notin Q
          /\ \A x \in Q : h[x] = 0
          /\ \A x \in Procs \ (Q \cup {r}) : h[x] = f[x]
          /\ \A x \in Procs : f[x] \in Nat /\ h[x] \in Nat
      BY <3>3, <3>4, <3>5, <3>6
    <3>8. SumOver(h, Procs) = SumOver(f, Procs) + m
      BY <1>2, <3>7, SumMoves
    <3> QED
      BY <3>1, <3>2, <3>8
  <2>8. SumOver(v, g \cup Asked') = SumOver(u, g \cup Asked) + m
    <3>1. PICK A \in SUBSET Procs : A = g \cup Asked
      BY DEF Asked
    <3>2. r \notin A /\ g \cup Asked' = A \cup {r} /\ IsFiniteSet(A)
      BY <1>1, <1>2, <1>10, <2>3, <3>1, FS_Subset DEF Asked
    <3>3. SumOver(v, A \cup {r}) = SumOver(v, A) + v[r]
      BY <3>2, SumWith
    <3>4. SumOver(v, A) = SumOver(u, A)
      <4>1. \A x \in A : v[x] = u[x]
        BY <1>6, <3>2
      <4> QED
        BY <4>1, SumSame
    <3> QED
      BY <1>6, <3>1, <3>2, <3>3, <3>4
  <2>9. SumOver(Held', Procs) = SumOver(n, g)
    BY <2>2, <2>6
  <2>10. SumOver(HeldUser', Procs) = SumOver(v, g \cup Asked')
    BY <2>2, <2>7, <2>8
  <2> QED
    BY <2>4, <2>5, <2>9, <2>10 DEF Answers, Children
<1>13. Round(n, v, g)'
  BY <1>1, <1>8, <1>9, <1>11, <1>12 DEF Round
<1> QED
  BY <1>13 DEF RoundInv

\* A rank that declines makes the round worthless.
LEMMA RoundDecline ==
    ASSUME TreeAssumption, SumTypes, EdgesInv, RoundInv, NEW r \in Procs, Decline(r)
    PROVE  RoundInv'
<1>1. UNCHANGED <<objects, printed>>
  BY DeclineEffect
<1>2. PICK n \in [Procs -> Nat], u \in [Procs -> Nat], g \in SUBSET Procs : Round(n, u, g)
  BY DEF RoundInv
<1>3. ~AllValid'
  <2>1. PICK m : m = Invalid(0)
    OBVIOUS
  <2>2. ~m.valid /\ m \in Numbers
    BY <2>1 DEF Invalid, Numbers
  <2>3. Head(<<m>>) = m /\ <<m>> # <<>>
    BY <2>2, NewMessage
  <2>4. sent'[r] = <<m>>
    BY <2>1, EdgesDecline
  <2> QED
    BY <2>2, <2>3, <2>4 DEF AllValid
<1>4. Round(n, u, g)'
  BY <1>1, <1>2, <1>3 DEF Round
<1> QED
  BY <1>4 DEF RoundInv

\* A rank that has seen some children's messages holds their sums itself, and adds k.
Takes(r, seen, h, v, k) ==
    /\ outstanding[r] /\ loop[r] \in {"work", "cleanup"}
    /\ seen \in SUBSET Children(r) /\ \A c \in seen : sent[c] # <<>>
    /\ With(r, seen).valid
    /\ \A p \in Procs : h[p] \in Nat /\ v[p] \in Nat
    /\ h[r] = With(r, seen).total + k /\ v[r] = With(r, seen).user
    /\ \A c \in seen : h[c] = 0 /\ v[c] = 0
    /\ \A p \in Procs \ (seen \cup {r}) : h[p] = Held[p] /\ v[p] = HeldUser[p]

\* What a rank takes from its children moves, and is not lost.
LEMMA HeldMoves ==
    ASSUME TreeAssumption, SumTypes, EdgesInv, NEW r \in Procs, NEW seen, NEW h, NEW v,
           NEW k \in Nat, Takes(r, seen, h, v, k)
    PROVE  /\ SumOver(h, Procs) = SumOver(Held, Procs) + k
           /\ SumOver(v, Procs) = SumOver(HeldUser, Procs)
           /\ sum[r].valid /\ \A c \in seen : Head(sent[c]).valid
<1>0. /\ outstanding[r] /\ loop[r] \in {"work", "cleanup"}
      /\ seen \in SUBSET Children(r) /\ \A c \in seen : sent[c] # <<>>
      /\ With(r, seen).valid
      /\ \A p \in Procs : h[p] \in Nat /\ v[p] \in Nat
      /\ h[r] = With(r, seen).total + k /\ v[r] = With(r, seen).user
      /\ \A c \in seen : h[c] = 0 /\ v[c] = 0
      /\ \A p \in Procs \ (seen \cup {r}) : h[p] = Held[p] /\ v[p] = HeldUser[p]
  BY DEF Takes
<1>1. /\ IsFiniteSet(Procs) /\ seen \in SUBSET Procs /\ r \notin seen
      /\ \A c \in seen : ~outstanding[c]
  BY <1>0, SeenNow, ChildrenOf DEF TreeAssumption
<1>2. /\ sum[r].valid /\ \A c \in seen : Head(sent[c]).valid
      /\ With(r, seen).total = sum[r].total + Total(seen)
      /\ With(r, seen).user = sum[r].user + UserTotal(seen)
      /\ Total(seen) \in Nat /\ UserTotal(seen) \in Nat
  BY <1>0, TakenUp
<1>3. PICK f : f = Held
  OBVIOUS
<1>4. PICK w : w = HeldUser
  OBVIOUS
<1>5. \A p \in Procs : f[p] \in Nat /\ w[p] \in Nat
  BY <1>3, <1>4, HeldTypes
<1>6. f[r] = sum[r].total /\ w[r] = sum[r].user
  BY <1>0, <1>3, <1>4 DEF Held, HeldUser
<1>7. Total(seen) = SumOver(f, seen)
  <2>1. PICK T : T = [c \in seen |-> Head(sent[c]).total]
    OBVIOUS
  <2>2. \A c \in seen : T[c] = f[c]
    BY <1>0, <1>1, <1>3, <2>1 DEF Held
  <2>3. SumOver(T, seen) = SumOver(f, seen)
    BY <2>2, SumSame
  <2> QED
    BY <2>1, <2>3 DEF Total
<1>8. UserTotal(seen) = SumOver(w, seen)
  <2>1. PICK T : T = [c \in seen |-> Head(sent[c]).user]
    OBVIOUS
  <2>2. \A c \in seen : T[c] = w[c]
    BY <1>0, <1>1, <1>4, <2>1 DEF HeldUser
  <2>3. SumOver(T, seen) = SumOver(w, seen)
    BY <2>2, SumSame
  <2> QED
    BY <2>1, <2>3 DEF UserTotal
<1>9. SumOver(h, Procs) = SumOver(f, Procs) + k
  <2>1. h[r] = f[r] + SumOver(f, seen) + k
    BY <1>0, <1>2, <1>6, <1>7
  <2>2. \A x \in Procs : f[x] \in Nat /\ h[x] \in Nat
    BY <1>0, <1>5
  <2>3. \A x \in Procs \ (seen \cup {r}) : h[x] = f[x]
    BY <1>0, <1>3
  <2>4. \A x \in seen : h[x] = 0
    BY <1>0
  <2> QED
    BY <1>1, <2>1, <2>2, <2>3, <2>4, SumMoves
<1>10. SumOver(v, Procs) = SumOver(w, Procs)
  <2>5. PICK z \in Nat : z = 0
    OBVIOUS
  <2>1. v[r] = w[r] + SumOver(w, seen) + z
    BY <1>0, <1>2, <1>5, <1>6, <1>8, <2>5
  <2>2. \A x \in Procs : w[x] \in Nat /\ v[x] \in Nat
    BY <1>0, <1>5
  <2>3. \A x \in Procs \ (seen \cup {r}) : v[x] = w[x]
    BY <1>0, <1>4
  <2>4. \A x \in seen : v[x] = 0
    BY <1>0
  <2>6. SumOver(v, Procs) = SumOver(w, Procs) + z
    BY <1>1, <2>1, <2>2, <2>3, <2>4, SumMoves
  <2>7. SumOver(w, Procs) \in Nat
    BY <1>1, <1>5, UnitsFinite
  <2> QED
    BY <2>5, <2>6, <2>7
<1> QED
  BY <1>2, <1>3, <1>4, <1>9, <1>10

LEMMA RoundWaits ==
    ASSUME TreeAssumption, SumTypes, SumTypes', EdgesInv, RoundInv,
           NEW r \in Procs, outstanding[r], loop[r] \in {"work", "cleanup"},
           NEW seen \in SUBSET Children(r), \A c \in seen : sent[c] # <<>>,
           Waits(r, seen), UNCHANGED <<objects, requests>>
    PROVE  RoundInv'
<1>1. PICK n \in [Procs -> Nat], u \in [Procs -> Nat], g \in SUBSET Procs : Round(n, u, g)
  BY DEF RoundInv
<1>2. /\ \A c \in seen : requests[c] = 0 /\ ~outstanding[c] /\ Tail(sent[c]) = <<>>
      /\ r \notin seen /\ seen \subseteq Procs
  BY SeenNow, ChildrenOf
<1>3. /\ sum' = [sum EXCEPT ![r] = With(r, seen)]
      /\ \A p \in Procs : sent'[p] = IF p \in seen THEN <<>> ELSE sent[p]
      /\ UNCHANGED <<outstanding, printed>>
  BY <1>2 DEF Waits
<1>4. sum'[r] = With(r, seen) /\ \A p \in Procs \ {r} : sum'[p] = sum[p]
  BY <1>3 DEF SumTypes
<1>5. ASSUME outstanding'[Top], AllValid'
      PROVE  Answers(n, u, g)'
  <2>1. With(r, seen).valid
    BY <1>3, <1>4, <1>5 DEF AllValid
  <2>2. PICK h : h = Held'
    OBVIOUS
  <2>3. PICK v : v = HeldUser'
    OBVIOUS
  <2>5. /\ h[r] = With(r, seen).total /\ v[r] = With(r, seen).user
        /\ \A c \in seen : h[c] = 0 /\ v[c] = 0
        /\ \A p \in Procs \ (seen \cup {r}) : h[p] = Held[p] /\ v[p] = HeldUser[p]
    BY <1>2, <1>3, <1>4, <2>2, <2>3 DEF Held, HeldUser
  <2>4. \A p \in Procs : h[p] \in Nat /\ v[p] \in Nat
    <3>1. With(r, seen).total \in Nat /\ With(r, seen).user \in Nat
      BY TakenUp DEF Numbers
    <3>2. \A p \in Procs : Held[p] \in Nat /\ HeldUser[p] \in Nat
      BY HeldTypes
    <3> QED
      BY <2>5, <3>1, <3>2
  <2>6. PICK k \in Nat : k = 0
    OBVIOUS
  <2>7. h[r] = With(r, seen).total + k
    BY <2>4, <2>5, <2>6
  <2>8. /\ SumOver(h, Procs) = SumOver(Held, Procs) + k
        /\ SumOver(v, Procs) = SumOver(HeldUser, Procs)
        /\ sum[r].valid /\ \A c \in seen : Head(sent[c]).valid
    <3>1. Takes(r, seen, h, v, k)
      BY <2>1, <2>4, <2>5, <2>7 DEF Takes
    <3> QED
      BY <3>1, HeldMoves
  <2>9. SumOver(Held, Procs) \in Nat
    <3>1. PICK f : f = Held
      OBVIOUS
    <3>2. \A p \in Procs : f[p] \in Nat
      BY <3>1, HeldTypes
    <3>3. SumOver(f, Procs) \in Nat
      BY <3>2, UnitsFinite DEF TreeAssumption
    <3> QED
      BY <3>1, <3>3
  <2>10. AllValid
    BY <1>3, <1>4, <1>5, <2>8 DEF AllValid
  <2>11. Answers(n, u, g)
    BY <1>1, <1>3, <1>5, <2>10 DEF Round
  <2>12. Asked' = Asked
    BY <1>3 DEF Asked
  <2>13. SumOver(Held', Procs) = SumOver(n, g)
    BY <2>2, <2>6, <2>8, <2>9, <2>11 DEF Answers
  <2>14. SumOver(HeldUser', Procs) = SumOver(u, g \cup Asked')
    BY <2>3, <2>8, <2>11, <2>12 DEF Answers
  <2> QED
    BY <1>3, <2>11, <2>13, <2>14 DEF Answers, Children
<1>6. Round(n, u, g)'
  BY <1>1, <1>3, <1>5 DEF Round
<1> QED
  BY <1>6 DEF RoundInv

\* What a rank that has heard all its children holds when it ends.
LEMMA OwnCount ==
    ASSUME TreeAssumption, SumTypes, NEW r \in Procs,
           NEW seen \in SUBSET Children(r), \A c \in seen : sent[c] # <<>>
    PROVE  /\ With(r, seen).total \in Nat /\ With(r, seen).user \in Nat
           /\ OwnSum(r, seen).valid <=> With(r, seen).valid
           /\ OwnSum(r, seen).user = With(r, seen).user
           /\ With(r, seen).valid => OwnSum(r, seen).total = With(r, seen).total + objects[r]
<1>1. With(r, seen) \in Numbers
  BY TakenUp
<1> QED
  BY <1>1 DEF OwnSum, Numbers

LEMMA RoundSendsUp ==
    ASSUME TreeAssumption, SumTypes, SumTypes', EdgesInv, RoundInv,
           NEW r \in Procs \ {Top}, outstanding[r], loop[r] \in {"work", "cleanup"},
           NEW seen \in SUBSET Children(r), \A c \in seen : sent[c] # <<>>,
           SendsUp(r, seen), OwnSum(r, seen) \in Numbers, UNCHANGED <<loop, objects, requests>>
    PROVE  RoundInv'
<1>1. PICK n \in [Procs -> Nat], u \in [Procs -> Nat], g \in SUBSET Procs : Round(n, u, g)
  BY DEF RoundInv
<1>2. /\ \A c \in seen : requests[c] = 0 /\ ~outstanding[c]
      /\ r \notin seen /\ seen \subseteq Procs /\ r \notin Children(r)
      /\ outstanding[ParentOf[r]] /\ sent[r] = <<>> /\ requests[r] = 0
  BY SeenNow, ChildrenOf
<1>3. PICK own \in Numbers : own = OwnSum(r, seen)
  OBVIOUS
<1>4. /\ \A p \in Procs : sent'[p] = IF p \in seen THEN <<>>
                                     ELSE IF p = r THEN <<own>> ELSE sent[p]
      /\ \A c \in Children(r) : requests[c] = 0 /\ ~outstanding[c]
  BY <1>3, EdgesSendsUp
<1>5. /\ \A p \in Procs : outstanding'[p] <=> outstanding[p] /\ p # r
      /\ \A p \in Procs \ {r} : sum'[p] = sum[p]
      /\ UNCHANGED printed
  BY DEF SendsUp, SumTypes
<1>6. Head(<<own>>) = own /\ <<own>> # <<>>
  BY NewMessage
<1>7. /\ IsFiniteSet(Procs) /\ Top \in Procs
      /\ \A c \in Procs \ {Top} : ParentOf[c] \in Procs
  BY DEF TreeAssumption
<1>8. PICK k \in Nat : k = objects[r]
  BY DEF SumTypes
<1>9. PICK m \in [Procs -> Nat] : m = [n EXCEPT ![r] = k]
  BY <1>8
<1>10. PICK G \in SUBSET Procs : G = g \cup {r}
  OBVIOUS
<1>11. \A p \in Procs : n[p] <= m[p] /\ m[p] <= objects'[p] /\ u[p] <= objects'[p] /\ u[p] <= u[p]
  <2> SUFFICES ASSUME NEW p \in Procs
               PROVE  n[p] <= m[p] /\ m[p] <= objects[p] /\ u[p] <= objects[p] /\ u[p] <= u[p]
    OBVIOUS
  <2>1. n[p] \in Nat /\ u[p] \in Nat /\ objects[p] \in Nat /\ u[p] <= objects[p] /\ n[p] <= objects[p]
    BY <1>1 DEF SumTypes, Round
  <2> QED
    BY <1>8, <1>9, <2>1
<1>12. \A i \in DOMAIN printed : /\ printed[i].total <= SumOver(m, Procs)
                                 /\ printed[i].user <= SumOver(u, Procs)
  BY <1>1, <1>11, StillPrinted DEF Round
<1>13. ASSUME outstanding'[Top], AllValid'
       PROVE  Answers(m, u, G)'
  <2>1. With(r, seen).valid
    <3>1. own.valid
      BY <1>2, <1>4, <1>6, <1>13 DEF AllValid
    <3> QED
      BY <1>3, <3>1, OwnCount
  <2>2. PICK h : h = Held'
    OBVIOUS
  <2>3. PICK v : v = HeldUser'
    OBVIOUS
  <2>4. /\ h[r] = own.total /\ v[r] = own.user
        /\ \A c \in seen : h[c] = 0 /\ v[c] = 0
        /\ \A p \in Procs \ (seen \cup {r}) : h[p] = Held[p] /\ v[p] = HeldUser[p]
    BY <1>2, <1>4, <1>5, <1>6, <2>2, <2>3 DEF Held, HeldUser
  <2>5. own.total = With(r, seen).total + k /\ own.user = With(r, seen).user
    BY <1>3, <1>8, <2>1, OwnCount
  <2>6. \A p \in Procs : h[p] \in Nat /\ v[p] \in Nat
    <3>1. own.total \in Nat /\ own.user \in Nat
      BY DEF Numbers
    <3>2. \A p \in Procs : Held[p] \in Nat /\ HeldUser[p] \in Nat
      BY HeldTypes
    <3>3. h[r] \in Nat /\ v[r] \in Nat
      BY <2>4, <3>1
    <3>4. \A p \in seen : h[p] \in Nat /\ v[p] \in Nat
      BY <2>4
    <3>5. \A p \in Procs \ (seen \cup {r}) : h[p] \in Nat /\ v[p] \in Nat
      BY <2>4, <3>2
    <3> QED
      BY <3>3, <3>4, <3>5
  <2>7. Takes(r, seen, h, v, k)
    BY <2>1, <2>4, <2>5, <2>6 DEF Takes
  <2>8. /\ SumOver(h, Procs) = SumOver(Held, Procs) + k
        /\ SumOver(v, Procs) = SumOver(HeldUser, Procs)
        /\ sum[r].valid /\ \A c \in seen : Head(sent[c]).valid
    BY <2>7, HeldMoves
  <2>9. AllValid /\ outstanding[Top]
    BY <1>2, <1>4, <1>5, <1>7, <1>13, <2>8 DEF AllValid
  <2>10. /\ \A p \in g : u[p] <= n[p] /\ ~outstanding[p] /\ Children(p) \subseteq g
         /\ \A c \in Procs \ {Top} :
               /\ c \in g => ParentOf[c] \in g \/ outstanding[ParentOf[c]]
               /\ outstanding[ParentOf[c]] => (c \in g <=> requests[c] = 0 /\ ~outstanding[c])
         /\ SumOver(Held, Procs) = SumOver(n, g)
         /\ SumOver(HeldUser, Procs) = SumOver(u, g \cup Asked)
    BY <1>1, <2>9 DEF Round, Answers
  <2>11. r \notin g /\ Children(r) \subseteq g
    <3>1. r \notin g
      BY <2>10
    <3>2. \A c \in Children(r) : c \in Procs \ {Top} /\ ParentOf[c] = r
      BY ChildrenOf
    <3>3. ASSUME NEW c \in Children(r)
          PROVE  c \in g
      <4>1. c \in Procs \ {Top} /\ outstanding[ParentOf[c]]
        BY <3>2
      <4>2. requests[c] = 0 /\ ~outstanding[c]
        BY <1>4
      <4> QED
        BY <2>10, <4>1, <4>2
    <3> QED
      BY <3>1, <3>3
  <2>12. \A p \in G : u[p] <= m[p] /\ ~outstanding'[p] /\ Children(p) \subseteq G
    <3>1. u[r] <= m[r]
      BY <1>1, <1>8, <1>9 DEF Round
    <3>2. \A p \in g : u[p] <= m[p]
      BY <1>9, <2>10, <2>11
    <3> QED
      BY <1>5, <1>10, <2>10, <2>11, <3>1, <3>2
  <2>13. ASSUME NEW c \in Procs \ {Top}
         PROVE  /\ c \in G => ParentOf[c] \in G \/ outstanding'[ParentOf[c]]
                /\ outstanding'[ParentOf[c]] => (c \in G <=> requests'[c] = 0 /\ ~outstanding'[c])
    <3>1. ParentOf[c] \in Procs /\ (c = r => ParentOf[c] # r)
      BY <1>2, <1>7, ChildrenOf
    <3>2. CASE c = r
      BY <1>2, <1>5, <1>10, <3>1, <3>2
    <3>3. CASE c # r
      BY <1>5, <1>10, <2>10, <3>1, <3>3
    <3> QED
      BY <3>2, <3>3
  <2>14. SumOver(m, G) = SumOver(n, g) + k
    <3>1. IsFiniteSet(g)
      BY <1>7, FS_Subset
    <3>2. SumOver(m, g \cup {r}) = SumOver(m, g) + m[r]
      BY <2>11, <3>1, SumWith
    <3>3. \A p \in g : m[p] = n[p]
      BY <1>9, <2>11
    <3>4. SumOver(m, g) = SumOver(n, g)
      BY <3>3, SumSame
    <3>5. m[r] = k
      BY <1>9
    <3> QED
      BY <1>10, <3>2, <3>4, <3>5
  <2>15. G \cup Asked' = g \cup Asked
    BY <1>5, <1>10 DEF Asked
  <2>16. SumOver(Held', Procs) = SumOver(m, G)
    BY <2>2, <2>8, <2>10, <2>14
  <2>17. SumOver(HeldUser', Procs) = SumOver(u, G \cup Asked')
    BY <2>3, <2>8, <2>10, <2>15
  <2> QED
    BY <2>12, <2>13, <2>16, <2>17 DEF Answers, Children
<1>14. Round(m, u, G)'
  BY <1>5, <1>11, <1>12, <1>13 DEF Round
<1> QED
  BY <1>14 DEF RoundInv

\* What the root prints in a step is no less than what it has printed.
PrintsMore ==
    \/ UNCHANGED printed
    \/ \E own \in Numbers :
          /\ printed' = Append(printed, own) /\ own.user <= own.total
          /\ \A i \in DOMAIN printed : /\ printed[i].total <= own.total
                                       /\ printed[i].user <= own.user

\* When the root has heard all its children, all ranks have answered.
LEMMA RoundPrints ==
    ASSUME TreeAssumption, SumTypes, SumTypes', BarrierInv, EdgesInv, RoundInv,
           outstanding[Top], loop[Top] \in {"work", "cleanup"},
           NEW seen \in SUBSET Children(Top), \A c \in seen : sent[c] # <<>>,
           SendsUp(Top, seen), OwnSum(Top, seen) \in Numbers,
           UNCHANGED <<loop, objects, requests>>
    PROVE  RoundInv' /\ PrintsMore
<1>1. PICK n \in [Procs -> Nat], u \in [Procs -> Nat], g \in SUBSET Procs : Round(n, u, g)
  BY DEF RoundInv
<1>2. /\ IsFiniteSet(Procs) /\ Top \in Procs
      /\ \A c \in Procs \ {Top} : Edge(c) /\ ParentOf[c] \in Procs
  BY DEF TreeAssumption, EdgesInv
<1>3. PICK own \in Numbers : own = OwnSum(Top, seen)
  OBVIOUS
<1>4. /\ \A p \in Procs : sent'[p] = IF p \in seen THEN <<>> ELSE sent[p]
      /\ \A c \in Children(Top) : requests[c] = 0 /\ ~outstanding[c] /\ sent'[c] = <<>>
  <2>1. PICK r \in Procs : r = Top
    BY <1>2
  <2>2. /\ \A p \in Procs : sent'[p] = IF p \in seen THEN <<>>
                                       ELSE IF p = r /\ r # Top THEN <<OwnSum(r, seen)>>
                                       ELSE sent[p]
        /\ \A c \in Children(r) : requests[c] = 0 /\ ~outstanding[c] /\ sent'[c] = <<>>
    BY <2>1, EdgesSendsUp
  <2> QED
    BY <2>1, <2>2
<1>5. /\ ~outstanding'[Top]
      /\ printed' = IF own.valid THEN Append(printed, own) ELSE printed
  BY <1>2, <1>3 DEF SendsUp, SumTypes
<1>6. \A p \in Procs : n[p] \in Nat /\ u[p] \in Nat /\ objects[p] \in Nat
                       /\ u[p] <= objects[p] /\ n[p] <= objects[p]
  BY <1>1 DEF SumTypes, Round
<1>7. CASE ~own.valid
  <2>1. Round(n, u, g)'
    BY <1>1, <1>5, <1>7 DEF Round
  <2> QED
    BY <1>5, <1>7, <2>1 DEF RoundInv, PrintsMore
<1>8. CASE own.valid
  <2>1. With(Top, seen).valid /\ sum[Top].valid /\ \A c \in seen : Head(sent[c]).valid
    BY <1>2, <1>3, <1>8, OwnCount, TakenUp
  <2>2. \A p \in Procs \ {Top} : ~outstanding[p]
    <3> DEFINE S == {p \in Procs : p # Top => ~outstanding[p]}
    <3>1. Top \in S /\ \A c \in Procs \ {Top} : ParentOf[c] \in S => c \in S
      <4>1. ASSUME NEW c \in Procs \ {Top}, ParentOf[c] \in S
            PROVE  ~outstanding[c]
        <5>1. CASE ParentOf[c] = Top
          BY <1>4, <5>1 DEF Children
        <5>2. CASE ParentOf[c] # Top
          BY <1>2, <4>1, <5>2 DEF Edge
        <5> QED
          BY <5>1, <5>2
      <4> QED
        BY <1>2, <4>1
    <3>2. S = Procs
      <4> HIDE DEF S
      <4>1. S \in SUBSET Procs
        BY DEF S
      <4> QED
        BY <3>1, <4>1, FromTop
    <3> QED
      BY <3>2
  <2>3. sent[Top] = <<>> /\ \A p \in Procs \ {Top} : sent[p] # <<>> => p \in seen
    <3>1. sent[Top] = <<>>
      BY DEF EdgesInv
    <3>2. ASSUME NEW p \in Procs \ {Top}, sent[p] # <<>>, p \notin seen
          PROVE  FALSE
      <4>1. CASE ParentOf[p] = Top
        BY <1>4, <3>2, <4>1 DEF Children
      <4>2. CASE ParentOf[p] # Top
        <5>1. ~outstanding[ParentOf[p]] /\ Past(p)
          BY <1>2, <2>2, <3>2, <4>2 DEF Edge, LastSent, Past
        <5>2. Past(Top)
          BY <5>1, TopFirst
        <5> QED
          BY <5>2 DEF Past
      <4> QED
        BY <4>1, <4>2
    <3> QED
      BY <3>1, <3>2
  <2>4. AllValid
    BY <2>1, <2>2, <2>3 DEF AllValid
  <2>5. /\ \A p \in g : u[p] <= n[p] /\ ~outstanding[p] /\ Children(p) \subseteq g
        /\ \A c \in Procs \ {Top} :
              /\ c \in g => ParentOf[c] \in g \/ outstanding[ParentOf[c]]
              /\ outstanding[ParentOf[c]] => (c \in g <=> requests[c] = 0 /\ ~outstanding[c])
        /\ SumOver(Held, Procs) = SumOver(n, g)
        /\ SumOver(HeldUser, Procs) = SumOver(u, g \cup Asked)
    BY <1>1, <2>4 DEF Round, Answers
  <2>6. Top \notin g /\ Asked = {Top}
    BY <1>2, <2>2, <2>5 DEF Asked
  <2>7. g \cup {Top} = Procs
    <3>1. PICK S \in SUBSET Procs : S = g \cup {Top}
      BY <1>2
    <3>2. ASSUME NEW c \in Procs \ {Top}, ParentOf[c] \in S
          PROVE  c \in S
      <4>1. CASE ParentOf[c] = Top
        <5>1. c \in Children(Top)
          BY <4>1 DEF Children
        <5>2. requests[c] = 0 /\ ~outstanding[c]
          BY <1>4, <5>1
        <5> QED
          BY <2>5, <3>1, <4>1, <5>2
      <4>2. CASE ParentOf[c] \in g
        BY <2>5, <3>1, <4>2 DEF Children
      <4> QED
        BY <3>1, <3>2, <4>1, <4>2
    <3>3. Top \in S
      BY <3>1
    <3>4. S = Procs
      BY <3>2, <3>3, FromTop
    <3> QED
      BY <3>1, <3>4
  <2>8. PICK k \in Nat : k = objects[Top]
    BY <1>2 DEF SumTypes
  <2>9. PICK m \in [Procs -> Nat] : m = [n EXCEPT ![Top] = k]
    BY <2>8
  <2>10. own.total = With(Top, seen).total + k /\ own.user = With(Top, seen).user
         /\ own.total \in Nat /\ own.user \in Nat
    BY <1>2, <1>3, <2>1, <2>8, OwnCount DEF Numbers
  <2>11. PICK h : h = [p \in Procs |-> IF p = Top THEN own.total ELSE 0]
    OBVIOUS
  <2>12. PICK v : v = [p \in Procs |-> IF p = Top THEN own.user ELSE 0]
    OBVIOUS
  <2>13. Top \notin seen /\ seen \subseteq Procs
    BY <1>2, ChildrenOf
  <2>14. Takes(Top, seen, h, v, k)
    <3>1. \A p \in Procs : h[p] \in Nat /\ v[p] \in Nat
      BY <2>10, <2>11, <2>12
    <3>2. h[Top] = With(Top, seen).total + k /\ v[Top] = With(Top, seen).user
      BY <1>2, <2>10, <2>11, <2>12
    <3>3. \A c \in seen : h[c] = 0 /\ v[c] = 0
      BY <2>11, <2>12, <2>13
    <3>4. \A p \in Procs \ (seen \cup {Top}) : h[p] = Held[p] /\ v[p] = HeldUser[p]
      BY <2>2, <2>3, <2>11, <2>12 DEF Held, HeldUser
    <3> QED
      BY <2>1, <3>1, <3>2, <3>3, <3>4 DEF Takes
  <2>15. /\ SumOver(h, Procs) = SumOver(Held, Procs) + k
         /\ SumOver(v, Procs) = SumOver(HeldUser, Procs)
    BY <1>2, <2>14, HeldMoves
  <2>16. /\ IsFiniteSet(g)
         /\ SumOver(h, Procs) = own.total /\ SumOver(v, Procs) = own.user
    <3>1. IsFiniteSet(g)
      BY <1>2, FS_Subset
    <3>2. /\ h[Top] = own.total /\ v[Top] = own.user
          /\ \A x \in g : h[x] = 0 /\ v[x] = 0
          /\ \A x \in g \cup {Top} : h[x] \in Nat /\ v[x] \in Nat
      BY <1>2, <2>6, <2>10, <2>11, <2>12
    <3>3. SumOver(h, g \cup {Top}) = SumOver(h, g) + h[Top]
      BY <2>6, <3>1, <3>2, SumWith
    <3>4. SumOver(v, g \cup {Top}) = SumOver(v, g) + v[Top]
      BY <2>6, <3>1, <3>2, SumWith
    <3>5. SumOver(h, g) = 0 /\ SumOver(v, g) = 0
      BY <3>2, SumZero
    <3>6. SumOver(h, Procs) = own.total
      <4>1. SumOver(h, g \cup {Top}) = 0 + own.total
        BY <3>2, <3>3, <3>5
      <4>2. 0 + own.total = own.total
        BY <2>10
      <4> QED
        BY <2>7, <4>1, <4>2
    <3>7. SumOver(v, Procs) = own.user
      <4>1. SumOver(v, g \cup {Top}) = 0 + own.user
        BY <3>2, <3>4, <3>5
      <4>2. 0 + own.user = own.user
        BY <2>10
      <4> QED
        BY <2>7, <4>1, <4>2
    <3> QED
      BY <3>1, <3>6, <3>7
  <2>17. SumOver(m, Procs) = own.total
    <3>1. SumOver(m, g \cup {Top}) = SumOver(m, g) + m[Top]
      <4>1. \A x \in g \cup {Top} : m[x] \in Nat
        BY <1>2
      <4> QED
        BY <2>6, <2>16, <4>1, SumWith
    <3>2. \A p \in g : m[p] = n[p]
      BY <2>6, <2>9
    <3>3. SumOver(m, g) = SumOver(n, g)
      BY <3>2, SumSame
    <3>4. m[Top] = k
      BY <1>2, <2>9
    <3> QED
      BY <2>5, <2>7, <2>15, <2>16, <3>1, <3>3, <3>4
  <2>18. SumOver(u, Procs) = own.user
    BY <2>5, <2>6, <2>7, <2>15, <2>16
  <2>19. \A p \in Procs : n[p] <= m[p] /\ m[p] <= objects[p] /\ u[p] <= objects[p] /\ u[p] <= u[p]
                          /\ u[p] <= m[p]
    <3> SUFFICES ASSUME NEW p \in Procs
                 PROVE  /\ n[p] <= m[p] /\ m[p] <= objects[p] /\ u[p] <= objects[p]
                        /\ u[p] <= u[p] /\ u[p] <= m[p]
      OBVIOUS
    <3>1. CASE p = Top
      BY <1>6, <2>8, <2>9, <3>1
    <3>2. CASE p # Top
      <4>1. p \in g /\ m[p] = n[p]
        BY <2>7, <2>9, <3>2
      <4> QED
        BY <1>6, <2>5, <4>1
    <3> QED
      BY <3>1, <3>2
  <2>20. \A i \in DOMAIN printed : /\ printed[i].total <= own.total /\ printed[i].user <= own.user
    <3>1. \A p \in Procs : n[p] <= m[p] /\ u[p] <= u[p]
      BY <2>19
    <3>2. \A i \in DOMAIN printed : /\ printed[i].total <= SumOver(m, Procs)
                                    /\ printed[i].user <= SumOver(u, Procs)
      BY <1>1, <3>1, StillPrinted DEF Round
    <3> QED
      BY <2>17, <2>18, <3>2
  <2>21. own.user <= own.total
    <3>1. SumOver(u, Procs) <= SumOver(m, Procs)
      <4>1. \A p \in Procs : u[p] \in Nat /\ m[p] \in Nat /\ u[p] <= m[p]
        BY <2>19
      <4> QED
        BY <1>2, <4>1, SumLess
    <3> QED
      BY <2>17, <2>18, <3>1
  <2>22. printed' = Append(printed, own)
    BY <1>5, <1>8
  <2>23. \A i \in DOMAIN printed' : printed'[i].total <= own.total /\ printed'[i].user <= own.user
    <3>1. /\ Len(printed') = Len(printed) + 1 /\ printed'[Len(printed) + 1] = own
          /\ \A i \in 1 .. Len(printed) : printed'[i] = printed[i]
          /\ Len(printed) \in Nat
          /\ DOMAIN printed = 1 .. Len(printed) /\ DOMAIN printed' = 1 .. Len(printed')
      BY <2>22, AppendProperties, LenProperties DEF SumTypes
    <3>2. ASSUME NEW i \in DOMAIN printed'
          PROVE  printed'[i].total <= own.total /\ printed'[i].user <= own.user
      <4>1. CASE i \in DOMAIN printed
        BY <2>20, <3>1, <4>1
      <4>2. CASE i = Len(printed) + 1
        BY <2>10, <3>1, <4>2
      <4> QED
        BY <3>1, <4>1, <4>2
    <3> QED
      BY <3>2
  <2>24. Round(m, u, g)'
    BY <1>5, <2>17, <2>18, <2>19, <2>23 DEF Round
  <2> QED
    BY <2>20, <2>21, <2>22, <2>24 DEF RoundInv, PrintsMore
<1> QED
  BY <1>7, <1>8

-----------------------------------------------------------------------------
(* The last sum                                                              *)

\* What each rank has for the last reduction and has not passed on.
Last == [r \in Procs |-> IF loop[r] = "sync" THEN sum[r].total
                         ELSE IF loop[r] # "done" THEN objects[r]
                         ELSE IF sent[r] # <<>> THEN Head(sent[r]).total ELSE 0]

\* No object is lost on the way to the root, which prints them all at the end.
LastInv ==
    /\ SumOver(objects, Procs) = Objects - unworked
    /\ loop[Top] # "done" => SumOver(Last, Procs) = Objects - unworked
    /\ loop[Top] = "done" => /\ printed # <<>> /\ printed[Len(printed)].total = Objects
                             /\ printed[Len(printed)].user = Objects

LEMMA LastTypes == ASSUME SumTypes PROVE \A r \in Procs : Last[r] \in Nat
<1>1. \A r \in Procs : sent[r] # <<>> => Head(sent[r]).total \in Nat
  BY HeldTypes DEF Numbers
<1>2. \A r \in Procs : sum[r].total \in Nat /\ objects[r] \in Nat
  BY DEF SumTypes, Numbers
<1> QED
  BY <1>1, <1>2 DEF Last

LEMMA LastInit == ASSUME TreeAssumption, SumInit PROVE LastInv
<1>1. \A r \in Procs : loop[r] = "work" /\ objects[r] = 0
  BY DEF SumInit
<1>2. \A r \in Procs : Last[r] = 0
  BY <1>1 DEF Last
<1>3. SumOver(objects, Procs) = 0 /\ SumOver(Last, Procs) = 0
  <2>1. PICK f : f = objects
    OBVIOUS
  <2>2. PICK h : h = Last
    OBVIOUS
  <2>3. SumOver(f, Procs) = 0
    BY <1>1, <2>1, SumZero
  <2>4. SumOver(h, Procs) = 0
    BY <1>2, <2>2, SumZero
  <2> QED
    BY <2>1, <2>2, <2>3, <2>4
<1>4. Objects - unworked = 0 /\ loop[Top] # "done"
  BY <1>1 DEF SumInit, TreeAssumption
<1> QED
  BY <1>3, <1>4 DEF LastInv

LEMMA LastKept ==
    ASSUME LastInv, UNCHANGED <<objects, unworked>>, Last' = Last,
           loop'[Top] = "done" <=> loop[Top] = "done",
           loop[Top] = "done" => UNCHANGED printed
    PROVE  LastInv'
BY DEF LastInv

\* One number more in a sum.
LEMMA SumMore ==
    ASSUME NEW S, IsFiniteSet(S), NEW f, NEW h, NEW r \in S, NEW k \in Nat,
           \A x \in S : f[x] \in Nat, h[r] = f[r] + k, \A x \in S \ {r} : h[x] = f[x]
    PROVE  SumOver(h, S) = SumOver(f, S) + k
<1>1. PICK Q \in SUBSET S : Q = {}
  OBVIOUS
<1>2. SumOver(f, Q) = 0
  BY <1>1, SumZero
<1>3. h[r] = f[r] + SumOver(f, Q) + k
  BY <1>2
<1>4. \A x \in S : f[x] \in Nat /\ h[x] \in Nat
  <2>1. h[r] \in Nat
    OBVIOUS
  <2> QED
    BY <2>1
<1>5. /\ r \notin Q /\ \A x \in Q : h[x] = 0
      /\ \A x \in S \ (Q \cup {r}) : h[x] = f[x]
  BY <1>1
<1> QED
  BY <1>3, <1>4, <1>5, SumMoves

LEMMA LastProcess ==
    ASSUME TreeAssumption, SumTypes, BarrierInv, LastInv, NEW r \in Procs, Process(r)
    PROVE  LastInv'
<1>1. /\ loop[r] = "work" /\ unworked > 0 /\ unworked' = unworked - 1
      /\ objects' = [objects EXCEPT ![r] = @ + 1]
      /\ UNCHANGED <<loop, sum, sent, printed>>
  BY DEF Process, reduction
<1>2. Top \in Procs /\ IsFiniteSet(Procs) /\ Objects \in Nat /\ unworked \in Nat
  BY DEF TreeAssumption, SumTypes
<1>3. loop[Top] # "done"
  BY <1>1, <1>2 DEF BarrierInv
<1>4. objects'[r] = objects[r] + 1 /\ \A p \in Procs \ {r} : objects'[p] = objects[p]
  BY <1>1 DEF SumTypes
<1>5. Last'[r] = Last[r] + 1 /\ \A p \in Procs \ {r} : Last'[p] = Last[p]
  BY <1>1, <1>4 DEF Last
<1>6. PICK k \in Nat : k = 1
  OBVIOUS
<1>7. SumOver(objects', Procs) = SumOver(objects, Procs) + 1
  <2>1. PICK f : f = objects
    OBVIOUS
  <2>2. PICK h : h = objects'
    OBVIOUS
  <2>3. \A x \in Procs : f[x] \in Nat
    BY <2>1 DEF SumTypes
  <2>4. h[r] = f[r] + k /\ \A x \in Procs \ {r} : h[x] = f[x]
    BY <1>4, <1>6, <2>1, <2>2
  <2>5. SumOver(h, Procs) = SumOver(f, Procs) + k
    BY <1>2, <2>3, <2>4, SumMore
  <2> QED
    BY <1>6, <2>1, <2>2, <2>5
<1>8. SumOver(Last', Procs) = SumOver(Last, Procs) + 1
  <2>1. PICK f : f = Last
    OBVIOUS
  <2>2. PICK h : h = Last'
    OBVIOUS
  <2>3. \A x \in Procs : f[x] \in Nat
    BY <2>1, LastTypes
  <2>4. h[r] = f[r] + k /\ \A x \in Procs \ {r} : h[x] = f[x]
    BY <1>5, <1>6, <2>1, <2>2
  <2>5. SumOver(h, Procs) = SumOver(f, Procs) + k
    BY <1>2, <2>3, <2>4, SumMore
  <2> QED
    BY <1>6, <2>1, <2>2, <2>5
<1>9. (Objects - unworked) + 1 = Objects - unworked'
  BY <1>1, <1>2
<1>10. /\ SumOver(objects, Procs) = Objects - unworked
       /\ SumOver(Last, Procs) = Objects - unworked
  BY <1>3 DEF LastInv
<1>11. /\ SumOver(objects', Procs) = Objects - unworked'
       /\ SumOver(Last', Procs) = Objects - unworked'
  BY <1>7, <1>8, <1>9, <1>10
<1> QED
  BY <1>1, <1>3, <1>11 DEF LastInv

LEMMA LastReceive ==
    ASSUME TreeAssumption, SumTypes, BarrierInv, EdgesInv, LastInv, NEW r \in Procs,
           SyncReceive(r)
    PROVE  LastInv'
<1>1. /\ loop[r] = "sync"
      /\ UNCHANGED <<loop, objects, unworked, outstanding, requests, printed>>
  BY SyncReceiveEffect
<1>2. PICK c \in Children(r) :
          /\ sent[c] # <<>>
          /\ sum' = [sum EXCEPT ![r] = With(r, {c})]
          /\ \A p \in Procs : sent'[p] = IF p = c THEN Tail(sent[p]) ELSE sent[p]
  BY SyncReceiveEffect
<1>3. /\ LastSent(c) /\ c \in Procs \ {Top} /\ c # r
      /\ \A p \in Procs : sent'[p] = IF p = c THEN <<>> ELSE sent[p]
      /\ With(r, {c}).total = sum[r].total + Head(sent[c]).total
  BY <1>1, <1>2, EdgesReceive
<1>4. sum'[r] = With(r, {c}) /\ \A p \in Procs \ {r} : sum'[p] = sum[p]
  BY <1>2 DEF SumTypes
<1>5. PICK f : f = Last
  OBVIOUS
<1>6. PICK h : h = Last'
  OBVIOUS
<1>7. PICK Q \in SUBSET Procs : Q = {c}
  BY <1>3
<1>8. PICK k \in Nat : k = 0
  OBVIOUS
<1>9. \A x \in Procs : f[x] \in Nat
  BY <1>5, LastTypes
<1>10. /\ f[r] = sum[r].total /\ f[c] = Head(sent[c]).total
       /\ h[r] = With(r, {c}).total /\ h[c] = 0
       /\ \A x \in Procs \ {c, r} : h[x] = f[x]
  BY <1>1, <1>2, <1>3, <1>4, <1>5, <1>6 DEF Last, LastSent
<1>11. SumOver(f, Q) = f[c]
  BY <1>3, <1>7, <1>9, SumOne
<1>12. h[r] = f[r] + SumOver(f, Q) + k
  BY <1>3, <1>8, <1>9, <1>10, <1>11
<1>13. /\ r \notin Q /\ \A x \in Q : h[x] = 0
       /\ \A x \in Procs \ (Q \cup {r}) : h[x] = f[x]
  BY <1>3, <1>7, <1>10
<1>14. \A x \in Procs : f[x] \in Nat /\ h[x] \in Nat
  <2>1. h[r] \in Nat
    BY <1>3, <1>9, <1>10
  <2> QED
    BY <1>9, <1>10, <2>1
<1>15. IsFiniteSet(Procs) /\ SumOver(f, Procs) \in Nat
  BY <1>9, UnitsFinite DEF TreeAssumption
<1>16. SumOver(h, Procs) = SumOver(f, Procs) + k
  BY <1>12, <1>13, <1>14, <1>15, SumMoves
<1>17. SumOver(Last', Procs) = SumOver(Last, Procs)
  BY <1>5, <1>6, <1>8, <1>15, <1>16
<1> QED
  BY <1>1, <1>17 DEF LastInv

LEMMA LastSyncSend ==
    ASSUME TreeAssumption, SumTypes, BarrierInv, EdgesInv, LastInv, NEW r \in Procs \ {Top},
           SyncSend(r)
    PROVE  LastInv'
<1>1. /\ loop[r] = "sync" /\ loop' = [loop EXCEPT ![r] = "done"]
      /\ UNCHANGED <<objects, unworked, sum, printed>>
  BY SyncSendEffect
<1>2. sent'[r] = <<sum[r]>> /\ \A p \in Procs \ {r} : sent'[p] = sent[p]
  BY EdgesSyncSend
<1>3. Head(sent'[r]) = sum[r] /\ sent'[r] # <<>>
  <2>1. PICK m \in Numbers : m = sum[r]
    BY DEF SumTypes
  <2> QED
    BY <1>2, <2>1, NewMessage
<1>4. loop'[r] = "done" /\ \A p \in Procs \ {r} : loop'[p] = loop[p]
  BY <1>1 DEF SumTypes
<1>5. Last' = Last
  BY <1>1, <1>2, <1>3, <1>4 DEF Last
<1> QED
  BY <1>1, <1>4, <1>5, LastKept DEF TreeAssumption

\* In the end the root has the sum.
LEMMA LastPrints ==
    ASSUME TreeAssumption, SumTypes, BarrierInv, EdgesInv, LastInv, SyncSend(Top)
    PROVE  /\ LastInv' /\ sum[Top] \in Numbers /\ printed' = Append(printed, sum[Top])
           /\ sum[Top].total = SumOver(objects, Procs) /\ sum[Top].user = SumOver(objects, Procs)
           /\ UNCHANGED objects
<1>1. /\ loop[Top] = "sync" /\ loop' = [loop EXCEPT ![Top] = "done"]
      /\ printed' = Append(printed, sum[Top])
      /\ UNCHANGED <<objects, unworked>>
  BY SyncSendEffect DEF TreeAssumption
<1>2. /\ Top \in Procs /\ IsFiniteSet(Procs) /\ Objects \in Nat
      /\ \A c \in Procs \ {Top} : Edge(c) /\ ParentOf[c] \in Procs
  BY DEF TreeAssumption, EdgesInv
<1>3. \A c \in Children(Top) : loop[c] = "done" /\ sent[c] = <<>>
  BY <1>2, EdgesSyncSend
<1>4. \A p \in Procs \ {Top} : loop[p] = "done" /\ sent[p] = <<>>
  <2> DEFINE S == {p \in Procs : p # Top => loop[p] = "done" /\ sent[p] = <<>>}
  <2>1. Top \in S /\ \A c \in Procs \ {Top} : ParentOf[c] \in S => c \in S
    <3>1. ASSUME NEW c \in Procs \ {Top}, ParentOf[c] \in S
          PROVE  loop[c] = "done" /\ sent[c] = <<>>
      <4>1. CASE ParentOf[c] = Top
        BY <1>3, <4>1 DEF Children
      <4>2. CASE ParentOf[c] # Top
        BY <1>2, <3>1, <4>2 DEF Edge
      <4> QED
        BY <4>1, <4>2
    <3> QED
      BY <1>2, <3>1
  <2>2. S = Procs
    <3> HIDE DEF S
    <3>1. S \in SUBSET Procs
      BY DEF S
    <3> QED
      BY <2>1, <3>1, FromTop
  <2> QED
    BY <2>2
<1>5. sum[Top] \in Numbers /\ sum[Top].total \in Nat /\ sum[Top].user = sum[Top].total
  BY <1>1, <1>2 DEF SumTypes, Numbers, EdgesInv, Counted
<1>6. SumOver(Last, Procs) = sum[Top].total
  <2>1. PICK f : f = Last
    OBVIOUS
  <2>2. f[Top] = sum[Top].total /\ \A p \in Procs \ {Top} : f[p] = 0
    BY <1>1, <1>2, <1>4, <2>1 DEF Last
  <2>3. PICK S \in SUBSET Procs : S = Procs \ {Top}
    OBVIOUS
  <2>4. IsFiniteSet(S) /\ Top \notin S /\ S \cup {Top} = Procs
    BY <1>2, <2>3, FS_Subset
  <2>5. \A x \in S \cup {Top} : f[x] \in Nat
    BY <1>5, <2>2, <2>3
  <2>6. SumOver(f, S \cup {Top}) = SumOver(f, S) + f[Top]
    BY <2>4, <2>5, SumWith
  <2>7. SumOver(f, S) = 0
    BY <2>2, <2>3, SumZero
  <2>8. SumOver(f, S \cup {Top}) = sum[Top].total
    BY <1>5, <2>2, <2>6, <2>7
  <2> QED
    BY <2>1, <2>4, <2>8
<1>7. SumOver(Last, Procs) = Objects - unworked /\ SumOver(objects, Procs) = Objects - unworked
  BY <1>1 DEF LastInv
<1>8. unworked = 0
  BY <1>1, <1>2 DEF BarrierInv
<1>9. sum[Top].total = Objects /\ sum[Top].user = Objects
  BY <1>2, <1>5, <1>6, <1>7, <1>8
<1>10. printed' # <<>> /\ printed'[Len(printed')] = sum[Top]
  BY <1>1, <1>5, AppendProperties, LenProperties DEF SumTypes
<1>11. loop'[Top] = "done"
  BY <1>1, <1>2 DEF SumTypes
<1>12. LastInv'
  BY <1>1, <1>7, <1>9, <1>10, <1>11 DEF LastInv
<1> QED
  BY <1>1, <1>5, <1>6, <1>7, <1>12

LEMMA LastNext ==
    ASSUME TreeAssumption, SumTypes, BarrierInv, EdgesInv, LastInv, NEW r \in Procs,
           \/ Process(r) \/ Leave(r) \/ StartReduce(r) \/ Decline(r) \/ Reduce(r)
           \/ BarrierTest(r) \/ SyncReceive(r) \/ SyncSend(r)
    PROVE  LastInv'
<1>0. Top \in Procs
  BY DEF TreeAssumption
<1>1. CASE Process(r)
  BY <1>1, LastProcess
<1>2. CASE Leave(r)
  <2>1. /\ loop[r] = "work" /\ loop' = [loop EXCEPT ![r] = "cleanup"]
        /\ UNCHANGED <<objects, unworked, sum, sent, printed>>
    BY <1>2 DEF Leave, reduction
  <2>2. loop'[r] = "cleanup" /\ \A p \in Procs \ {r} : loop'[p] = loop[p]
    BY <2>1 DEF SumTypes
  <2>3. Last' = Last
    BY <2>1, <2>2 DEF Last
  <2> QED
    BY <1>0, <2>1, <2>2, <2>3, LastKept
<1>3. CASE StartReduce(r)
  <2>1. /\ loop[r] = "work" /\ sum' = [sum EXCEPT ![r] = Fresh(0, objects[r])]
        /\ UNCHANGED <<loop, objects, unworked, sent, printed>>
    BY <1>3, StartEffect
  <2>2. \A p \in Procs \ {r} : sum'[p] = sum[p]
    BY <2>1 DEF SumTypes
  <2>3. Last' = Last
    BY <2>1, <2>2 DEF Last
  <2> QED
    BY <2>1, <2>3, LastKept
<1>4. CASE Decline(r)
  <2>1. /\ loop[r] = "cleanup" /\ sent' = [sent EXCEPT ![r] = sent[r] \o <<Invalid(0)>>]
        /\ UNCHANGED <<loop, objects, unworked, sum, printed>>
    BY <1>4, DeclineEffect
  <2>2. \A p \in Procs \ {r} : sent'[p] = sent[p]
    BY <2>1 DEF SumTypes
  <2>3. Last' = Last
    BY <2>1, <2>2 DEF Last
  <2> QED
    BY <2>1, <2>3, LastKept
<1>5. CASE Reduce(r)
  <2>1. /\ loop[r] \in {"work", "cleanup"}
        /\ UNCHANGED <<loop, objects, unworked>>
    BY <1>5, ReduceEffect
  <2>2. PICK seen \in SUBSET Children(r) : Waits(r, seen) \/ SendsUp(r, seen)
    BY <1>5, ReduceEffect
  <2>3. /\ \A p \in Procs \ {r} : sum'[p] = sum[p]
        /\ \A p \in Procs : p \notin seen \cup {r} => sent'[p] = sent[p]
        /\ r # Top => UNCHANGED printed
    <3>1. CASE Waits(r, seen)
      BY <3>1 DEF Waits, SumTypes
    <3>2. CASE SendsUp(r, seen)
      BY <3>2 DEF SendsUp, SumTypes
    <3> QED
      BY <2>2, <3>1, <3>2
  <2>4. \A c \in seen : c \in Procs /\ c # r /\ loop[c] \notin {"sync", "done"}
    <3> SUFFICES ASSUME NEW c \in seen
                 PROVE  c \in Procs /\ c # r /\ ~Past(c)
      BY DEF Past
    <3>1. c \in Procs \ {Top} /\ c # r /\ ParentOf[c] = r
      BY ChildrenOf
    <3>2. Past(c) => Past(r)
      BY <3>1 DEF BarrierInv
    <3> QED
      BY <2>1, <3>1, <3>2 DEF Past
  <2>5. Last' = Last
    BY <2>1, <2>3, <2>4 DEF Last
  <2>6. loop[Top] = "done" => UNCHANGED printed
    BY <2>1, <2>3
  <2> QED
    BY <2>1, <2>5, <2>6, LastKept
<1>6. CASE BarrierTest(r)
  <2>1. /\ loop[r] = "cleanup"
        /\ UNCHANGED <<objects, unworked, sent, printed>>
    BY <1>6, BarrierEffect
  <2>2. \/ UNCHANGED <<loop, sum>>
        \/ /\ loop' = [loop EXCEPT ![r] = "sync"]
           /\ sum' = [sum EXCEPT ![r] = Fresh(objects[r], objects[r])]
    BY <1>6, BarrierEffect DEF Hears, Passes
  <2>3. CASE UNCHANGED <<loop, sum>>
    <3>1. Last' = Last
      BY <2>1, <2>3 DEF Last
    <3> QED
      BY <2>1, <2>3, <3>1, LastKept
  <2>4. CASE /\ loop' = [loop EXCEPT ![r] = "sync"]
             /\ sum' = [sum EXCEPT ![r] = Fresh(objects[r], objects[r])]
    <3>1. /\ loop'[r] = "sync" /\ sum'[r].total = objects[r]
          /\ \A p \in Procs \ {r} : loop'[p] = loop[p] /\ sum'[p] = sum[p]
      BY <2>4 DEF SumTypes, Fresh
    <3>2. Last' = Last
      BY <2>1, <3>1 DEF Last
    <3> QED
      BY <1>0, <2>1, <3>1, <3>2, LastKept
  <2> QED
    BY <2>2, <2>3, <2>4
<1>7. CASE SyncReceive(r)
  BY <1>7, LastReceive
<1>8. CASE SyncSend(r)
  <2>1. CASE r = Top
    BY <1>8, <2>1, LastPrints
  <2>2. CASE r # Top
    BY <1>8, <2>2, LastSyncSend
  <2> QED
    BY <2>1, <2>2
<1> QED
  BY <1>1, <1>2, <1>3, <1>4, <1>5, <1>6, <1>7, <1>8

\* The last sum is the counts themselves.
LEMMA RoundSyncTop ==
    ASSUME TreeAssumption, SumTypes, BarrierInv, EdgesInv, RoundInv, LastInv, SyncSend(Top)
    PROVE  RoundInv' /\ PrintsMore
<1>1. PICK n \in [Procs -> Nat], u \in [Procs -> Nat], g \in SUBSET Procs : Round(n, u, g)
  BY DEF RoundInv
<1>2. PICK m \in [Procs -> Nat] : m = objects
  BY DEF SumTypes
<1>3. PICK own \in Numbers : own = sum[Top]
  BY LastPrints
<1>4. /\ printed' = Append(printed, own)
      /\ own.total = SumOver(m, Procs) /\ own.user = SumOver(m, Procs)
      /\ objects' = m
  BY <1>2, <1>3, LastPrints
<1>5. ~outstanding'[Top]
  <2>1. loop[Top] = "sync" /\ UNCHANGED outstanding
    BY SyncSendEffect DEF TreeAssumption
  <2> QED
    BY <2>1 DEF BarrierInv, Ready, Past, TreeAssumption
<1>6. \A p \in Procs : n[p] <= m[p] /\ u[p] <= m[p] /\ m[p] <= m[p]
  BY <1>1, <1>2 DEF Round
<1>7. /\ SumOver(m, Procs) \in Nat
      /\ \A i \in DOMAIN printed : /\ printed[i].total <= own.total
                                   /\ printed[i].user <= own.user
  <2>1. \A p \in Procs : n[p] <= m[p] /\ u[p] <= m[p]
    BY <1>6
  <2>2. \A i \in DOMAIN printed : /\ printed[i].total <= SumOver(n, Procs)
                                  /\ printed[i].user <= SumOver(u, Procs)
    BY <1>1 DEF Round
  <2>3. /\ SumOver(m, Procs) \in Nat
        /\ \A i \in DOMAIN printed : /\ printed[i].total <= SumOver(m, Procs)
                                     /\ printed[i].user <= SumOver(m, Procs)
    BY <2>1, <2>2, StillPrinted
  <2> QED
    BY <1>4, <2>3
<1>8. \A i \in DOMAIN printed' : /\ printed'[i].total <= SumOver(m, Procs)
                                 /\ printed'[i].user <= SumOver(m, Procs)
  <2>1. /\ Len(printed') = Len(printed) + 1 /\ printed'[Len(printed) + 1] = own
        /\ \A i \in 1 .. Len(printed) : printed'[i] = printed[i]
        /\ Len(printed) \in Nat
        /\ DOMAIN printed = 1 .. Len(printed) /\ DOMAIN printed' = 1 .. Len(printed')
    BY <1>4, AppendProperties, LenProperties DEF SumTypes
  <2>2. ASSUME NEW i \in DOMAIN printed'
        PROVE  printed'[i].total <= SumOver(m, Procs) /\ printed'[i].user <= SumOver(m, Procs)
    <3>1. CASE i \in DOMAIN printed
      BY <1>4, <1>7, <2>1, <3>1
    <3>2. CASE i = Len(printed) + 1
      BY <1>4, <1>7, <2>1, <3>2
    <3> QED
      BY <2>1, <3>1, <3>2
  <2> QED
    BY <2>2
<1>9. Round(m, m, g)'
  BY <1>4, <1>5, <1>6, <1>8 DEF Round
<1>10. own.user <= own.total
  BY <1>4, <1>7
<1> QED
  BY <1>4, <1>7, <1>9, <1>10 DEF RoundInv, PrintsMore

LEMMA RoundNext ==
    ASSUME TreeAssumption, SumTypes, SumTypes', BarrierInv, EdgesInv, RoundInv, LastInv,
           NEW r \in Procs,
           \/ Process(r) \/ Leave(r) \/ StartReduce(r) \/ Decline(r) \/ Reduce(r)
           \/ BarrierTest(r) \/ SyncReceive(r) \/ SyncSend(r)
    PROVE  RoundInv' /\ PrintsMore
<1>0. \A p \in Procs : objects[p] \in Nat
  BY DEF SumTypes
<1>1. CASE Process(r)
  <2>1. /\ UNCHANGED <<outstanding, sum, requests, sent, printed>>
        /\ objects' = [objects EXCEPT ![r] = @ + 1]
    BY <1>1 DEF Process, reduction
  <2>2. \A p \in Procs : objects[p] <= objects'[p]
    <3>1. \A p \in Procs : objects'[p] = IF p = r THEN objects[p] + 1 ELSE objects[p]
      BY <2>1 DEF SumTypes
    <3> QED
      BY <1>0, <3>1
  <2> QED
    BY <2>1, <2>2, RoundKept DEF PrintsMore
<1>2. CASE Leave(r)
  <2>1. UNCHANGED <<objects, outstanding, sum, requests, sent, printed>>
    BY <1>2 DEF Leave, reduction
  <2>2. \A p \in Procs : objects[p] <= objects'[p]
    BY <1>0, <2>1
  <2> QED
    BY <2>1, <2>2, RoundKept DEF PrintsMore
<1>3. CASE StartReduce(r)
  <2>1. UNCHANGED printed
    BY <1>3, StartEffect
  <2>2. CASE r = Top
    BY <1>3, <2>1, <2>2, RoundStartTop DEF PrintsMore
  <2>3. CASE r # Top
    BY <1>3, <2>1, <2>3, RoundStart DEF PrintsMore
  <2> QED
    BY <2>2, <2>3
<1>4. CASE Decline(r)
  <2>1. UNCHANGED printed
    BY <1>4, DeclineEffect
  <2> QED
    BY <1>4, <2>1, RoundDecline DEF PrintsMore
<1>5. CASE Reduce(r)
  <2>1. /\ loop[r] \in {"work", "cleanup"} /\ outstanding[r]
        /\ UNCHANGED <<loop, objects, requests>>
    BY <1>5, ReduceEffect
  <2>2. PICK seen \in SUBSET Children(r) :
            /\ \A c \in seen : sent[c] # <<>>
            /\ OwnSum(r, seen) \in Numbers
            /\ Waits(r, seen) \/ SendsUp(r, seen)
    BY <1>5, ReduceEffect
  <2>3. CASE Waits(r, seen)
    <3>1. UNCHANGED printed
      BY <2>3 DEF Waits
    <3> QED
      BY <2>1, <2>2, <2>3, <3>1, RoundWaits DEF PrintsMore
  <2>4. CASE SendsUp(r, seen) /\ r # Top
    <3>1. UNCHANGED printed
      BY <2>4 DEF SendsUp
    <3> QED
      BY <2>1, <2>2, <2>4, <3>1, RoundSendsUp DEF PrintsMore
  <2>5. CASE SendsUp(r, seen) /\ r = Top
    BY <2>1, <2>2, <2>5, RoundPrints
  <2> QED
    BY <2>2, <2>3, <2>4, <2>5
<1>6. CASE BarrierTest(r)
  <2>1. /\ ~outstanding[r]
        /\ UNCHANGED <<objects, outstanding, requests, sent, printed>>
    BY <1>6, BarrierEffect
  <2>2. \/ UNCHANGED <<loop, sum>>
        \/ /\ loop' = [loop EXCEPT ![r] = "sync"]
           /\ sum' = [sum EXCEPT ![r] = Fresh(objects[r], objects[r])]
    BY <1>6, BarrierEffect DEF Hears, Passes
  <2>3. \A p \in Procs : /\ outstanding[p] => sum'[p] = sum[p]
                         /\ objects[p] <= objects'[p]
    BY <1>0, <2>1, <2>2 DEF SumTypes
  <2> QED
    BY <2>1, <2>3, RoundKept DEF PrintsMore
<1>7. CASE SyncReceive(r)
  <2>1. /\ loop[r] = "sync"
        /\ UNCHANGED <<objects, outstanding, requests, printed>>
    BY <1>7, SyncReceiveEffect
  <2>2. ~outstanding'[Top]
    <3>1. Past(r)
      BY <2>1 DEF Past
    <3>2. Past(Top)
      BY <3>1, TopFirst
    <3> QED
      BY <2>1, <3>2 DEF BarrierInv, Ready, TreeAssumption
  <2>3. PICK n \in [Procs -> Nat], u \in [Procs -> Nat], g \in SUBSET Procs : Round(n, u, g)
    BY DEF RoundInv
  <2>4. Round(n, u, g)'
    BY <2>1, <2>2, <2>3 DEF Round
  <2> QED
    BY <2>1, <2>4 DEF RoundInv, PrintsMore
<1>8. CASE SyncSend(r)
  <2>1. CASE r = Top
    BY <1>8, <2>1, RoundSyncTop
  <2>2. CASE r # Top
    <3>1. /\ loop[r] = "sync"
          /\ UNCHANGED <<objects, outstanding, requests, printed>>
      BY <1>8, <2>2, SyncSendEffect
    <3>2. ~outstanding'[Top]
      <4>1. Past(r)
        BY <3>1 DEF Past
      <4>2. Past(Top)
        BY <4>1, TopFirst
      <4> QED
        BY <3>1, <4>2 DEF BarrierInv, Ready, TreeAssumption
    <3>3. PICK n \in [Procs -> Nat], u \in [Procs -> Nat], g \in SUBSET Procs : Round(n, u, g)
      BY DEF RoundInv
    <3>4. Round(n, u, g)'
      BY <3>1, <3>2, <3>3 DEF Round
    <3> QED
      BY <3>1, <3>4 DEF RoundInv, PrintsMore
  <2> QED
    BY <2>1, <2>2
<1> QED
  BY <1>1, <1>2, <1>3, <1>4, <1>5, <1>6, <1>7, <1>8

-----------------------------------------------------------------------------
(* What the root prints                                                      *)

PrintedInv ==
    \A i \in DOMAIN printed :
       /\ printed[i].user <= printed[i].total
       /\ \A j \in 1 .. i : /\ printed[j].total <= printed[i].total
                            /\ printed[j].user <= printed[i].user

LEMMA PrintedNext ==
    ASSUME SumTypes, PrintedInv, PrintsMore
    PROVE  PrintedInv'
<1>1. CASE UNCHANGED printed
  BY <1>1 DEF PrintedInv
<1>2. CASE ~UNCHANGED printed
  <2>1. PICK own \in Numbers :
            /\ printed' = Append(printed, own) /\ own.user <= own.total
            /\ \A i \in DOMAIN printed : /\ printed[i].total <= own.total
                                         /\ printed[i].user <= own.user
    BY <1>2 DEF PrintsMore
  <2>2. own.total \in Nat /\ own.user \in Nat
    BY DEF Numbers
  <2>3. /\ Len(printed') = Len(printed) + 1 /\ printed'[Len(printed) + 1] = own
        /\ \A i \in 1 .. Len(printed) : printed'[i] = printed[i]
        /\ Len(printed) \in Nat
        /\ DOMAIN printed = 1 .. Len(printed) /\ DOMAIN printed' = 1 .. Len(printed')
    <3>1. printed' \in Seq(Numbers)
      BY <2>1, AppendProperties DEF SumTypes
    <3> QED
      BY <2>1, <3>1, AppendProperties, LenProperties DEF SumTypes
  <2>4. ASSUME NEW i \in DOMAIN printed', NEW j \in 1 .. i
        PROVE  /\ printed'[i].user <= printed'[i].total
               /\ printed'[j].total <= printed'[i].total
               /\ printed'[j].user <= printed'[i].user
    <3>1. i \in Nat /\ j \in Nat /\ 1 <= j /\ j <= i /\ i <= Len(printed) + 1 /\ 1 <= i
      BY <2>3
    <3>2. CASE i <= Len(printed)
      <4>1. i \in DOMAIN printed /\ j \in 1 .. Len(printed)
        BY <2>3, <3>1, <3>2
      <4>2. printed'[i] = printed[i] /\ printed'[j] = printed[j]
        BY <2>3, <4>1
      <4> QED
        BY <4>1, <4>2 DEF PrintedInv
    <3>3. CASE i = Len(printed) + 1 /\ j = i
      BY <2>1, <2>2, <2>3, <3>3
    <3>4. CASE i = Len(printed) + 1 /\ j # i
      <4>1. j \in 1 .. Len(printed) /\ j \in DOMAIN printed
        BY <2>3, <3>1, <3>4
      <4>2. printed'[i] = own /\ printed'[j] = printed[j]
        BY <2>3, <3>4, <4>1
      <4> QED
        BY <2>1, <4>1, <4>2
    <3> QED
      BY <2>3, <3>1, <3>2, <3>3, <3>4
  <2>5. ASSUME NEW i \in DOMAIN printed'
        PROVE  printed'[i].user <= printed'[i].total
    <3>1. i \in 1 .. i
      BY <2>3
    <3> QED
      BY <2>4, <3>1
  <2> QED
    BY <2>4, <2>5 DEF PrintedInv
<1> QED
  BY <1>1, <1>2

ReduceInv ==
    SumTypes /\ BarrierInv /\ EdgesInv /\ RoundInv /\ LastInv /\ PrintedInv

LEMMA ReduceInvInit == ASSUME TreeAssumption, SumInit PROVE ReduceInv
<1>1. PrintedInv
  BY DEF SumInit, PrintedInv
<1> QED
  BY <1>1, SumTypesInit, BarrierInit, EdgesInit, RoundInit, LastInit DEF ReduceInv

LEMMA ReduceInvNext == ASSUME TreeAssumption, ReduceInv, [SumNext]_sumVars PROVE ReduceInv'
<1>1. CASE SumNext
  <2>0. SumTypes /\ BarrierInv /\ EdgesInv /\ RoundInv /\ LastInv /\ PrintedInv
    BY DEF ReduceInv
  <2>1. PICK r \in Procs :
            \/ Process(r) \/ Leave(r) \/ StartReduce(r) \/ Decline(r) \/ Reduce(r)
            \/ BarrierTest(r) \/ SyncReceive(r) \/ SyncSend(r)
    BY <1>1 DEF SumNext
  <2>2. SumTypes'
    BY <2>0, <2>1, SumTypesNext
  <2>3. BarrierInv'
    BY <2>0, <2>1, BarrierNext
  <2>4. EdgesInv'
    BY <2>0, <2>1, EdgesNext
  <2>5. RoundInv' /\ PrintsMore
    BY <2>0, <2>1, <2>2, RoundNext
  <2>6. LastInv'
    BY <2>0, <2>1, LastNext
  <2>7. PrintedInv'
    BY <2>0, <2>5, PrintedNext
  <2> QED
    BY <2>2, <2>3, <2>4, <2>5, <2>6, <2>7 DEF ReduceInv
<1>2. CASE UNCHANGED sumVars
  <2>0. /\ SumTypes /\ BarrierInv /\ EdgesInv /\ RoundInv /\ LastInv /\ PrintedInv
        /\ UNCHANGED <<loop, objects, unworked, outstanding, sum, requests, sent, met, arrived,
                       released, starts, printed>>
    BY <1>2 DEF ReduceInv, sumVars
  <2>1. SumTypes'
    BY <2>0 DEF SumTypes
  <2>2. \A p \in Procs : objects[p] <= objects[p]
    BY <2>0 DEF SumTypes
  <2>3. BarrierInv'
    BY <2>0 DEF BarrierInv, Ready, Past, Came, Children
  <2>4. EdgesInv'
    BY <2>0, EdgesKept
  <2>5. RoundInv'
    BY <2>0, <2>1, <2>2, RoundKept
  <2>6. LastInv'
    BY <2>0 DEF LastInv, Last
  <2>7. PrintedInv'
    BY <2>0 DEF PrintedInv
  <2> QED
    BY <2>1, <2>3, <2>4, <2>5, <2>6, <2>7 DEF ReduceInv
<1> QED
  BY <1>1, <1>2

LEMMA ReduceInvReduced == ASSUME TreeAssumption, ReduceInv PROVE Reduced
<1>0. SumTypes /\ BarrierInv /\ EdgesInv /\ RoundInv /\ LastInv /\ PrintedInv
  BY DEF ReduceInv
<1>1. ASSUME NEW i \in DOMAIN printed
      PROVE  printed[i].total <= Objects - unworked
  <2>1. PICK n \in [Procs -> Nat], u \in [Procs -> Nat], g \in SUBSET Procs : Round(n, u, g)
    BY <1>0 DEF RoundInv
  <2>2. PICK m \in [Procs -> Nat] : m = objects
    BY <1>0 DEF SumTypes
  <2>3. \A p \in Procs : n[p] <= m[p] /\ u[p] <= m[p]
    BY <2>1, <2>2 DEF Round
  <2>4. \A j \in DOMAIN printed : /\ printed[j].total <= SumOver(n, Procs)
                                  /\ printed[j].user <= SumOver(u, Procs)
    BY <2>1 DEF Round
  <2>5. printed[i].total <= SumOver(m, Procs)
    BY <1>0, <2>3, <2>4, StillPrinted
  <2>6. SumOver(objects, Procs) = Objects - unworked
    BY <1>0 DEF LastInv
  <2> QED
    BY <2>2, <2>5, <2>6
<1>2. ASSUME NEW r \in Procs, loop[r] = "done"
      PROVE  requests[r] = 0 /\ \A c \in Children(r) : sent[c] = <<>>
  <2>1. \A c \in Children(r) : sent[c] = <<>>
    BY <1>0, <1>2, ChildrenOf DEF EdgesInv, Edge
  <2>2. CASE r = Top
    BY <1>0, <2>1, <2>2 DEF EdgesInv
  <2>3. CASE r # Top
    <3>1. ParentOf[r] \in Procs /\ Edge(r) /\ requests[r] \in Nat
      BY <1>0, <2>3 DEF TreeAssumption, EdgesInv, SumTypes
    <3>2. ~outstanding[ParentOf[r]]
      BY <1>0, <1>2, <2>3, <3>1 DEF BarrierInv, Ready, Past
    <3> QED
      BY <2>1, <3>1, <3>2 DEF Edge
  <2> QED
    BY <2>2, <2>3
<1> QED
  BY <1>0, <1>1, <1>2 DEF Reduced, PrintedInv, LastInv

\* Whatever the tree of ranks: the sums that the root prints never shrink and never count
\* what is not done, the last has all objects, and no message of a reduction is left.
THEOREM ReductionsNeverMix == ASSUME TreeAssumption PROVE SumSpec => []Reduced
<1>1. SumInit => ReduceInv
  BY ReduceInvInit
<1>2. ReduceInv /\ [SumNext]_sumVars => ReduceInv'
  BY ReduceInvNext
<1>3. ReduceInv => Reduced
  BY ReduceInvReduced
<1> QED
  BY <1>1, <1>2, <1>3, PTL DEF SumSpec
=============================================================================
