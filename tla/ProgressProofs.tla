--------------------------- MODULE ProgressProofs ---------------------------
(***************************************************************************)
(* The progress rounds are safe for any number of ranks and any amount of  *)
(* work: the invariant RoundInv of Progress is inductive and implies that  *)
(* a rank in its work loop holds no stop flag, that rounds do not overlap, *)
(* and that a rank which has freed its communicator left nothing behind;   *)
(* with TotalsInv it implies that the sums of the last round are final.    *)
(***************************************************************************)
EXTENDS Progress, FiniteSetTheorems, SequenceTheorems, TLAPS

USE NAssumption

\* Rank 0 exists, and it is not one of the others.
LEMMA RanksFacts == Root \in Ranks /\ Others \subseteq Ranks /\ Root \notin Others
BY DEF Root, Ranks, Others

\* The first element appended to an empty queue.
LEMMA AppendEmpty == \A x : Append(<<>>, x) = <<x>>
OBVIOUS

\* Nothing follows the only element of a queue.
LEMMA TailSingle == ASSUME NEW S, NEW s \in Seq(S), Len(s) = 1 PROVE Tail(s) = <<>>
<1>1. s # <<>>
  BY EmptySeq
<1>2. Tail(s) \in Seq(S) /\ Len(Tail(s)) = 0
  BY <1>1, HeadTailProperties
<1> QED BY <1>2, EmptySeq

\* A reduction counts all ranks as complete only if each of them said so.
LEMMA AllFlags ==
    ASSUME Summed.complete = N
    PROVE  \A r \in Ranks : Head(contribs[r]).flag = 1
<1> DEFINE S == {r \in Ranks : Head(contribs[r]).flag = 1}
<1>1. IsFiniteSet(Ranks) /\ Cardinality(Ranks) = N
  BY FS_Interval DEF Ranks
<1>2. Cardinality(S) = N
  BY DEF Summed
<1>3. S = Ranks
  BY <1>1, <1>2, FS_Subset
<1> QED BY <1>3

\* The count of complete ranks is a natural number.
LEMMA CompleteNat == Summed.complete \in Nat
<1> DEFINE S == {r \in Ranks : Head(contribs[r]).flag = 1}
<1>1. IsFiniteSet(Ranks)
  BY FS_Interval DEF Ranks
<1>2. IsFiniteSet(S)
  BY <1>1, FS_Subset
<1>3. Cardinality(S) \in Nat
  BY <1>2, FS_CardinalityType
<1> QED BY <1>3 DEF Summed

\* The start of every rank satisfies the invariant.
LEMMA RoundInit == Init => RoundInv
<1> SUFFICES ASSUME Init PROVE RoundInv
  OBVIOUS
<1> USE RanksFacts
<1>1. TypeOK
  BY DEF Init, TypeOK
<1>2. RootPhase
  BY DEF Init, RootPhase
<1>3. \A r \in Others : Phase(r)
  BY DEF Init, Phase
<1>4. TruthfulFlags
  BY DEF Init, TruthfulFlags
<1> QED BY <1>1, <1>2, <1>3, <1>4 DEF RoundInv

\* Steps that touch no collective.
LEMMA WorkStep ==
    ASSUME RoundInv, NEW r \in Ranks, Work(r) PROVE RoundInv'
<1>1. TypeOK'
  BY DEF RoundInv, TypeOK, Work
<1>2. RootPhase'
  BY DEF RoundInv, RootPhase, Work
<1>3. \A q \in Others : Phase(q)'
  BY DEF RoundInv, Phase, Work
<1>4. TruthfulFlags'
  BY DEF RoundInv, TruthfulFlags, Work
<1> QED BY <1>1, <1>2, <1>3, <1>4 DEF RoundInv

LEMMA EnterCompleteStep ==
    ASSUME RoundInv, NEW r \in Ranks, EnterComplete(r) PROVE RoundInv'
<1> USE RanksFacts
<1>1. TypeOK'
  BY DEF RoundInv, TypeOK, EnterComplete
<1>2. RootPhase'
  BY DEF RoundInv, TypeOK, RootPhase, EnterComplete
<1>3. \A q \in Others : Phase(q)'
  BY DEF RoundInv, TypeOK, Phase, EnterComplete
<1>4. TruthfulFlags'
  BY DEF RoundInv, TypeOK, TruthfulFlags, EnterComplete
<1> QED BY <1>1, <1>2, <1>3, <1>4 DEF RoundInv

\* The root starts a round.  It contributes a true flag: it is in
\* mfu_progress_complete when it says complete.
LEMMA StartRoundStep ==
    ASSUME RoundInv, NEW c \in {0, 1}, StartRound(c), pc[Root] \in {"update", "complete"},
           c = 1 => pc[Root] = "complete",
           UNCHANGED <<pc, val, keep_going, global_vals, printed>>
    PROVE  RoundInv'
<1> USE RanksFacts
<1>0. /\ contribs[Root] = <<>> /\ bcasts[Root] = <<>>
      /\ \A r \in Others : bcasts[r] = <<>> /\ contribs[r] = <<>> /\ bcast_req[r]
                           /\ pc[r] \in {"update", "complete"}
  BY DEF RoundInv, RootPhase, Phase, StartRound, NoRound
<1>a. contribs' = [contribs EXCEPT ![Root] = <<[flag |-> c, vals |-> val[Root]]>>]
  BY <1>0 DEF StartRound, Contribute, Contribution, RoundInv, TypeOK
<1>b. bcasts' = [r \in Ranks |-> IF r = Root THEN <<>> ELSE <<keep_going[Root]>>]
  <2>1. \A r \in Ranks : bcasts[r] = <<>>
    BY <1>0 DEF Others
  <2> QED BY <2>1, AppendEmpty DEF StartRound
<1>1. TypeOK'
  BY <1>a, <1>b DEF RoundInv, TypeOK, StartRound
<1>2. RootPhase'
  BY <1>a, <1>b DEF RoundInv, TypeOK, RootPhase, StartRound
<1>3. \A q \in Others : Phase(q)'
  BY <1>0, <1>a, <1>b DEF RoundInv, TypeOK, Phase, StartRound
<1>4. TruthfulFlags'
  <2>1. ASSUME NEW r \in Ranks, NEW i \in 1 .. Len(contribs'[r]), contribs'[r][i].flag = 1
        PROVE  pc[r] # "update"
    <3>1. CASE r = Root
      BY <1>a, <2>1, <3>1 DEF RoundInv, TypeOK
    <3>2. CASE r # Root
      BY <1>a, <2>1, <3>2 DEF RoundInv, TypeOK, TruthfulFlags
    <3> QED BY <3>1, <3>2
  <2>2. \A r \in Ranks : (keep_going[r] = 0 => keep_going[Root] = 0)
                         /\ (pc[r] = "done" => ~reduce_req'[r])
    BY DEF RoundInv, TypeOK, TruthfulFlags, StartRound
  <2> QED BY <2>1, <2>2 DEF TruthfulFlags
<1> QED BY <1>1, <1>2, <1>3, <1>4 DEF RoundInv
\* When the root's reduce completes, every rank has joined the round, which leaves
\* nothing queued; the sum says N only if no rank is in its work loop.
LEMMA FinishReduceFacts ==
    ASSUME RoundInv, reduce_req[Root], ReduceReady(Root), FinishReduce
    PROVE  /\ contribs' = [r \in Ranks |-> <<>>]
           /\ global_vals'.complete \in Nat
           /\ global_vals'.complete = N => \A r \in Ranks : pc[r] # "update"
           /\ \A r \in Others : /\ bcasts[r] = <<>>
                                /\ IF keep_going[Root] = 1
                                     THEN bcast_req[r] /\ pc[r] \in {"update", "complete"}
                                     ELSE ~bcast_req[r] /\ pc[r] \in {"last", "done"}
<1> USE RanksFacts
<1>1. \A r \in Ranks : contribs[r] # <<>>
  BY DEF ReduceReady
<1>2. \A r \in Ranks : Len(contribs[r]) = 1
  BY <1>1 DEF RoundInv, RootPhase, Phase, Others
<1>3. \A r \in Ranks : contribs[r] \in Seq([flag : {0, 1}, vals : Nat])
  BY DEF RoundInv, TypeOK
<1>4. \A r \in Ranks : Tail(contribs[r]) = <<>>
  BY <1>2, <1>3, TailSingle
<1>5. contribs' = [r \in Ranks |-> <<>>]
  BY <1>4 DEF FinishReduce
<1>6. global_vals'.complete \in Nat
  BY CompleteNat DEF FinishReduce
<1>7. ASSUME global_vals'.complete = N, NEW r \in Ranks PROVE pc[r] # "update"
  <2>1. Head(contribs[r]).flag = 1
    BY <1>7, AllFlags DEF FinishReduce
  <2>2. contribs[r][1].flag = 1
    BY <2>1, <1>2, <1>3
  <2> QED BY <2>2, <1>2 DEF RoundInv, TruthfulFlags
<1>8. \A r \in Others : /\ bcasts[r] = <<>>
                        /\ IF keep_going[Root] = 1
                             THEN bcast_req[r] /\ pc[r] \in {"update", "complete"}
                             ELSE ~bcast_req[r] /\ pc[r] \in {"last", "done"}
  BY <1>1 DEF RoundInv, Phase
<1> QED BY <1>5, <1>6, <1>7, <1>8

LEMMA UpdateRootTestStep ==
    ASSUME RoundInv, UpdateRootTest PROVE RoundInv'
<1> USE RanksFacts
<1>1. PICK bcast_done \in TestBcast(Root), reduce_done \in TestReduce(Root) :
         /\ bcast_req' = [bcast_req EXCEPT ![Root] = ~bcast_done]
         /\ reduce_req' = [reduce_req EXCEPT ![Root] = ~reduce_done]
         /\ IF reduce_req[Root] /\ reduce_done
              THEN FinishReduce
              ELSE UNCHANGED <<contribs, global_vals>>
         /\ printed' = IF bcast_done /\ reduce_done THEN global_vals' ELSE printed
  BY DEF UpdateRootTest
<1>2. bcast_done \in BOOLEAN /\ reduce_done \in BOOLEAN /\ keep_going[Root] = 1
  BY DEF TestBcast, TestReduce, RoundInv, RootPhase, TypeOK, UpdateRootTest
<1>3. UNCHANGED <<pc, val, keep_going, bcasts>> /\ pc[Root] = "update"
  BY DEF UpdateRootTest
<1>4. ~bcast_done => bcast_req[Root]
  BY DEF TestBcast
<1>5. CASE reduce_req[Root] /\ reduce_done
  <2>1. ReduceReady(Root) /\ FinishReduce
    BY <1>1, <1>5 DEF TestReduce
  <2>2. TypeOK'
    <3>1. contribs' = [r \in Ranks |-> <<>>] /\ global_vals'.complete \in Nat
      BY <2>1, <1>5, FinishReduceFacts
    <3>2. printed'.complete \in Nat
      BY <1>1, <3>1 DEF RoundInv, TypeOK
    <3> QED BY <1>1, <1>2, <1>3, <3>1, <3>2 DEF RoundInv, TypeOK
  <2>3. RootPhase'
    BY <2>1, <1>1, <1>2, <1>3, <1>5, FinishReduceFacts DEF RoundInv, TypeOK, RootPhase
  <2>4. \A q \in Others : Phase(q)'
    BY <2>1, <1>1, <1>2, <1>3, <1>5, FinishReduceFacts DEF RoundInv, TypeOK, RootPhase, Phase
  <2>5. TruthfulFlags'
    BY <2>1, <1>1, <1>2, <1>3, <1>5, FinishReduceFacts DEF RoundInv, TypeOK, TruthfulFlags
  <2> QED BY <2>2, <2>3, <2>4, <2>5 DEF RoundInv
<1>6. CASE ~(reduce_req[Root] /\ reduce_done)
  <2>1. UNCHANGED <<contribs, global_vals, reduce_req>>
    BY <1>1, <1>2, <1>6 DEF TestReduce, RoundInv, TypeOK
  <2>2. TypeOK'
    BY <2>1, <1>1, <1>2, <1>3 DEF RoundInv, TypeOK
  <2>3. RootPhase'
    BY <2>1, <1>1, <1>2, <1>3, <1>4 DEF RoundInv, TypeOK, RootPhase
  <2>4. \A q \in Others : Phase(q)'
    BY <2>1, <1>1, <1>2, <1>3 DEF RoundInv, TypeOK, Phase
  <2>5. TruthfulFlags'
    BY <2>1, <1>1, <1>2, <1>3 DEF RoundInv, TypeOK, TruthfulFlags
  <2> QED BY <2>2, <2>3, <2>4, <2>5 DEF RoundInv
<1> QED BY <1>5, <1>6

LEMMA CompleteRootWaitStep ==
    ASSUME RoundInv, CompleteRootWait PROVE RoundInv'
<1> USE RanksFacts
<1>1. /\ pc[Root] = "complete" /\ UNCHANGED <<val, bcasts>>
      /\ bcast_req' = [bcast_req EXCEPT ![Root] = FALSE]
      /\ reduce_req' = [reduce_req EXCEPT ![Root] = FALSE]
      /\ bcast_req[Root] \/ reduce_req[Root]
  BY DEF CompleteRootWait
<1>2. /\ contribs' = [r \in Ranks |-> <<>>]
      /\ global_vals'.complete \in Nat
      /\ global_vals'.complete = N => \A r \in Ranks : pc[r] # "update"
      /\ \A r \in Others : /\ bcasts[r] = <<>>
                           /\ IF keep_going[Root] = 1
                                THEN bcast_req[r] /\ pc[r] \in {"update", "complete"}
                                ELSE ~bcast_req[r] /\ pc[r] \in {"last", "done"}
  <2>1. CASE reduce_req[Root]
    <3>1. ReduceReady(Root) /\ FinishReduce
      BY <2>1 DEF CompleteRootWait
    <3> QED BY <2>1, <3>1, FinishReduceFacts
  <2>2. CASE ~reduce_req[Root]
    <3>1. UNCHANGED <<contribs, global_vals>> /\ contribs[Root] = <<>>
      BY <2>2 DEF CompleteRootWait, RoundInv, RootPhase
    <3>2. \A r \in Ranks : contribs[r] = <<>>
      BY <3>1 DEF RoundInv, Phase, Others
    <3>3. contribs' = [r \in Ranks |-> <<>>]
      BY <3>1, <3>2 DEF RoundInv, TypeOK
    <3>4. keep_going[Root] = 1
      BY <2>2, <1>1 DEF RoundInv, RootPhase, TypeOK
    <3> QED BY <3>1, <3>3, <3>4, <1>1 DEF RoundInv, TypeOK, RootPhase, Phase
  <2> QED BY <2>1, <2>2
<1>3. CASE keep_going[Root] = 0
  <2>1. pc' = [pc EXCEPT ![Root] = "done"] /\ UNCHANGED <<keep_going, printed>>
    BY <1>3 DEF CompleteRootWait
  <2>2. TypeOK'
    BY <2>1, <1>1, <1>2 DEF RoundInv, TypeOK
  <2>3. RootPhase'
    BY <2>1, <1>1, <1>2, <1>3 DEF RoundInv, TypeOK, RootPhase
  <2>4. \A q \in Others : Phase(q)'
    BY <2>1, <1>1, <1>2, <1>3 DEF RoundInv, TypeOK, Phase, Others
  <2>5. TruthfulFlags'
    BY <2>1, <1>1, <1>2, <1>3 DEF RoundInv, TypeOK, TruthfulFlags
  <2> QED BY <2>2, <2>3, <2>4, <2>5 DEF RoundInv
<1>4. CASE keep_going[Root] = 1
  <2>1. /\ printed' \in {printed, global_vals'} /\ UNCHANGED pc
        /\ keep_going' = [keep_going EXCEPT ![Root] =
                            IF global_vals'.complete = N THEN 0 ELSE 1]
    BY <1>4 DEF CompleteRootWait, NextFlag
  <2>2. TypeOK'
    BY <2>1, <1>1, <1>2 DEF RoundInv, TypeOK
  <2>3. RootPhase'
    BY <2>1, <1>1, <1>2, <1>4 DEF RoundInv, TypeOK, RootPhase
  <2>4. \A q \in Others : Phase(q)'
    BY <2>1, <1>1, <1>2, <1>4 DEF RoundInv, TypeOK, Phase, Others
  <2>5. TruthfulFlags'
    BY <2>1, <1>1, <1>2, <1>4 DEF RoundInv, TypeOK, TruthfulFlags
  <2> QED BY <2>2, <2>3, <2>4, <2>5 DEF RoundInv
<1> QED BY <1>3, <1>4 DEF RoundInv, TypeOK
\* A rank that has received the bcast of the round, or receives it now, has not
\* contributed to it; it holds the root's flag.
LEMMA ReceiveFacts ==
    ASSUME RoundInv, NEW r \in Others, pc[r] \in {"update", "complete"},
           bcast_req[r] => BcastReady(r),
           IF bcast_req[r] THEN ReceiveBcast(r) ELSE UNCHANGED <<bcasts, keep_going>>
    PROVE  /\ contribs[Root] # <<>> /\ contribs[r] = <<>>
           /\ bcasts' = [bcasts EXCEPT ![r] = <<>>]
           /\ keep_going' = [keep_going EXCEPT ![r] = keep_going[Root]]
<1> USE RanksFacts
<1>1. CASE bcast_req[r]
  <2>1. contribs[Root] # <<>> /\ contribs[r] = <<>> /\ bcasts[r] = <<keep_going[Root]>>
    BY <1>1 DEF RoundInv, Phase, BcastReady, Others
  <2>2. Head(bcasts[r]) = keep_going[Root]
    BY <2>1
  <2>3. Tail(bcasts[r]) = <<>>
    BY <2>1, TailSingle DEF RoundInv, TypeOK
  <2> QED BY <1>1, <2>1, <2>2, <2>3 DEF ReceiveBcast
<1>2. CASE ~bcast_req[r]
  <2>1. /\ contribs[Root] # <<>> /\ contribs[r] = <<>> /\ bcasts[r] = <<>>
        /\ keep_going[r] = keep_going[Root]
    BY <1>2 DEF RoundInv, Phase
  <2> QED BY <1>2, <2>1 DEF RoundInv, TypeOK
<1> QED BY <1>1, <1>2

\* A rank joins the round: it receives, contributes, and posts the next bcast unless
\* this round is the last.
LEMMA JoinStep ==
    ASSUME RoundInv, NEW r \in Others, NEW c \in {0, 1},
           pc[r] \in {"update", "complete"}, c = 1 => pc[r] = "complete",
           bcast_req[r] => BcastReady(r),
           IF bcast_req[r] THEN ReceiveBcast(r) ELSE UNCHANGED <<bcasts, keep_going>>,
           Contribute(r, c),
           reduce_req' = [reduce_req EXCEPT ![r] = TRUE],
           bcast_req' = [bcast_req EXCEPT ![r] = keep_going[Root] = 1],
           pc' = [pc EXCEPT ![r] = IF keep_going[Root] = 1 THEN @ ELSE "last"],
           UNCHANGED <<val, global_vals, printed>>
    PROVE  RoundInv'
<1> USE RanksFacts
<1>1. /\ contribs[Root] # <<>> /\ contribs[r] = <<>>
      /\ bcasts' = [bcasts EXCEPT ![r] = <<>>]
      /\ keep_going' = [keep_going EXCEPT ![r] = keep_going[Root]]
  BY ReceiveFacts
<1>2. contribs' = [contribs EXCEPT ![r] = <<[flag |-> c, vals |-> val[r]]>>]
  BY <1>1, AppendEmpty DEF Contribute, Contribution, RoundInv, TypeOK
<1>3. TypeOK'
  BY <1>1, <1>2, SMTT(30) DEF RoundInv, TypeOK
<1>4. RootPhase'
  BY <1>1, <1>2 DEF RoundInv, TypeOK, RootPhase
<1>5. ASSUME NEW q \in Others PROVE Phase(q)'
  <2>1. CASE q = r
    BY <1>1, <1>2, <2>1 DEF RoundInv, TypeOK, Phase
  <2>2. CASE q # r
    BY <1>1, <1>2, <2>2 DEF RoundInv, TypeOK, Phase
  <2> QED BY <2>1, <2>2
<1>6. TruthfulFlags'
  <2>1. ASSUME NEW q \in Ranks, NEW i \in 1 .. Len(contribs'[q]), contribs'[q][i].flag = 1
        PROVE  pc'[q] # "update"
    <3>1. CASE q = r
      BY <1>2, <2>1, <3>1 DEF RoundInv, TypeOK
    <3>2. CASE q # r
      BY <1>2, <2>1, <3>2 DEF RoundInv, TypeOK, TruthfulFlags
    <3> QED BY <3>1, <3>2
  <2>2. \A q \in Ranks : keep_going'[q] = 0 => keep_going'[Root] = 0
    BY <1>1 DEF RoundInv, TypeOK, TruthfulFlags
  <2>3. \A q \in Ranks : pc'[q] = "done" => ~reduce_req'[q]
    BY DEF RoundInv, TypeOK, TruthfulFlags
  <2> QED BY <2>1, <2>2, <2>3 DEF TruthfulFlags
<1> QED BY <1>3, <1>4, <1>5, <1>6 DEF RoundInv

LEMMA UpdateOtherStep ==
    ASSUME RoundInv, NEW r \in Others, UpdateOther(r) PROVE RoundInv'
<1> USE RanksFacts
<1>1. PICK bcast_done \in TestBcast(r), reduce_done \in TestReduce(r), expired \in BOOLEAN :
         LET join == expired /\ bcast_done /\ reduce_done IN
         /\ IF bcast_req[r] /\ bcast_done
              THEN ReceiveBcast(r)
              ELSE UNCHANGED <<bcasts, keep_going>>
         /\ bcast_req' = [bcast_req EXCEPT ![r] = join \/ ~bcast_done]
         /\ reduce_req' = [reduce_req EXCEPT ![r] = join \/ ~reduce_done]
         /\ IF join THEN Contribute(r, 0) ELSE UNCHANGED contribs
  BY DEF UpdateOther
<1>2. pc[r] = "update" /\ UNCHANGED <<pc, val, global_vals, printed>> /\ keep_going[Root] = 1
  BY DEF UpdateOther, RoundInv, TypeOK, RootPhase
<1>3. /\ bcast_done \in BOOLEAN /\ reduce_done \in BOOLEAN
      /\ bcast_done /\ bcast_req[r] => BcastReady(r)
      /\ ~bcast_done => bcast_req[r]
      /\ ~reduce_done => reduce_req[r]
  BY DEF TestBcast, TestReduce
<1>4. CASE expired /\ bcast_done /\ reduce_done
  <2>1. /\ IF bcast_req[r] THEN ReceiveBcast(r) ELSE UNCHANGED <<bcasts, keep_going>>
        /\ bcast_req[r] => BcastReady(r)
        /\ Contribute(r, 0)
        /\ reduce_req' = [reduce_req EXCEPT ![r] = TRUE]
        /\ bcast_req' = [bcast_req EXCEPT ![r] = TRUE]
    BY <1>1, <1>3, <1>4
  <2>2. /\ bcast_req' = [bcast_req EXCEPT ![r] = keep_going[Root] = 1]
        /\ pc' = [pc EXCEPT ![r] = IF keep_going[Root] = 1 THEN @ ELSE "last"]
    BY <2>1, <1>2 DEF RoundInv, TypeOK
  <2>3. pc[r] \in {"update", "complete"} /\ (0 = 1 => pc[r] = "complete") /\ 0 \in {0, 1}
    BY <1>2
  <2> QED BY ONLY RoundInv, <1>2, <2>1, <2>2, <2>3, JoinStep
<1>5. CASE ~(expired /\ bcast_done /\ reduce_done)
  <2>1. /\ UNCHANGED contribs
        /\ reduce_req' = [reduce_req EXCEPT ![r] = ~reduce_done]
        /\ bcast_req' = [bcast_req EXCEPT ![r] = ~bcast_done]
    BY <1>1, <1>5
  <2>2. CASE bcast_done
    <3>1. /\ contribs[Root] # <<>> /\ contribs[r] = <<>>
          /\ bcasts' = [bcasts EXCEPT ![r] = <<>>]
          /\ keep_going' = [keep_going EXCEPT ![r] = keep_going[Root]]
      BY <1>1, <1>2, <1>3, <2>2, ReceiveFacts
    <3>2. TypeOK'
      BY <1>2, <1>3, <2>1, <3>1 DEF RoundInv, TypeOK
    <3>3. RootPhase'
      BY <1>2, <1>3, <2>1, <3>1 DEF RoundInv, TypeOK, RootPhase
    <3>4. \A q \in Others : Phase(q)'
      BY <1>2, <2>1, <2>2, <3>1 DEF RoundInv, TypeOK, Phase
    <3>5. TruthfulFlags'
      BY <1>2, <2>1, <3>1 DEF RoundInv, TypeOK, TruthfulFlags
    <3> QED BY <3>2, <3>3, <3>4, <3>5 DEF RoundInv
  <2>3. CASE ~bcast_done
    <3>1. UNCHANGED <<bcasts, keep_going, bcast_req>>
      BY <1>1, <1>3, <2>1, <2>3 DEF RoundInv, TypeOK
    <3>2. TypeOK'
      BY <1>2, <1>3, <2>1, <3>1 DEF RoundInv, TypeOK
    <3>3. RootPhase'
      BY <1>2, <1>3, <2>1, <3>1 DEF RoundInv, TypeOK, RootPhase
    <3>4. \A q \in Others : Phase(q)'
      BY <1>2, <2>1, <3>1 DEF RoundInv, TypeOK, Phase
    <3>5. TruthfulFlags'
      BY <1>2, <2>1, <3>1 DEF RoundInv, TypeOK, TruthfulFlags
    <3> QED BY <3>2, <3>3, <3>4, <3>5 DEF RoundInv
  <2> QED BY <2>2, <2>3, <1>3
<1> QED BY <1>4, <1>5

LEMMA CompleteOtherStep ==
    ASSUME RoundInv, NEW r \in Others, CompleteOther(r) PROVE RoundInv'
<1> USE RanksFacts
<1>1. /\ pc[r] = "complete"
      /\ bcast_req[r] => BcastReady(r)
      /\ IF bcast_req[r] THEN ReceiveBcast(r) ELSE UNCHANGED <<bcasts, keep_going>>
      /\ Contribute(r, 1)
      /\ reduce_req' = [reduce_req EXCEPT ![r] = TRUE]
      /\ bcast_req' = [bcast_req EXCEPT ![r] = keep_going'[r] = 1]
      /\ pc' = [pc EXCEPT ![r] = IF keep_going'[r] = 1 THEN "complete" ELSE "last"]
      /\ UNCHANGED <<val, global_vals, printed>>
  BY DEF CompleteOther, PostsNext
<1>2. keep_going'[r] = keep_going[Root]
  BY <1>1, ReceiveFacts DEF RoundInv, TypeOK
<1>3. /\ bcast_req' = [bcast_req EXCEPT ![r] = keep_going[Root] = 1]
      /\ pc' = [pc EXCEPT ![r] = IF keep_going[Root] = 1 THEN @ ELSE "last"]
  BY <1>1, <1>2 DEF RoundInv, TypeOK
<1> QED BY <1>1, <1>3, JoinStep

LEMMA LastWaitStep ==
    ASSUME RoundInv, NEW r \in Others, LastWait(r) PROVE RoundInv'
<1> USE RanksFacts
<1>1. TypeOK'
  BY DEF RoundInv, TypeOK, LastWait
<1>2. RootPhase'
  BY DEF RoundInv, TypeOK, RootPhase, LastWait
<1>3. \A q \in Others : Phase(q)'
  BY DEF RoundInv, TypeOK, Phase, LastWait
<1>4. TruthfulFlags'
  BY DEF RoundInv, TypeOK, TruthfulFlags, LastWait
<1> QED BY <1>1, <1>2, <1>3, <1>4 DEF RoundInv

\* The invariant is inductive: it holds of the start and of every step.
THEOREM Inductive == Spec => []RoundInv
<1>1. Init => RoundInv
  BY RoundInit
<1>2. RoundInv /\ [Next]_vars => RoundInv'
  <2> SUFFICES ASSUME RoundInv, [Next]_vars PROVE RoundInv'
    OBVIOUS
  <2>1. ASSUME NEW r \in Ranks, Work(r) PROVE RoundInv'
    BY <2>1, WorkStep
  <2>2. ASSUME NEW r \in Ranks, EnterComplete(r) PROVE RoundInv'
    BY <2>2, EnterCompleteStep
  <2>3. CASE UpdateRootStart
    BY <2>3, StartRoundStep DEF UpdateRootStart
  <2>4. CASE UpdateRootTest
    BY <2>4, UpdateRootTestStep
  <2>5. CASE CompleteRootStart
    BY <2>5, StartRoundStep DEF CompleteRootStart
  <2>6. CASE CompleteRootWait
    BY <2>6, CompleteRootWaitStep
  <2>7. ASSUME NEW r \in Others, UpdateOther(r) PROVE RoundInv'
    BY <2>7, UpdateOtherStep
  <2>8. ASSUME NEW r \in Others, CompleteOther(r) PROVE RoundInv'
    BY <2>8, CompleteOtherStep
  <2>9. ASSUME NEW r \in Others, LastWait(r) PROVE RoundInv'
    BY <2>9, LastWaitStep
  <2>10. CASE UNCHANGED vars
    BY <2>10 DEF vars, RoundInv, TypeOK, RootPhase, Phase, TruthfulFlags
  <2> QED BY <2>1, <2>2, <2>3, <2>4, <2>5, <2>6, <2>7, <2>8, <2>9, <2>10 DEF Next, Finished
<1> QED BY <1>1, <1>2, PTL DEF Spec

\* For any number of ranks the comment in mfu_progress_update is right: a rank that
\* posts another bcast there has keep_going = 1 and will be sent no 0 before it
\* enters mfu_progress_complete.
THEOREM KeepGoingSafe == Spec => []KeepGoingInUpdate
<1>1. RoundInv => KeepGoingInUpdate
  <2> SUFFICES ASSUME RoundInv, NEW r \in Ranks, pc[r] = "update"
               PROVE  keep_going[r] = 1 /\ \A i \in 1 .. Len(bcasts[r]) : bcasts[r][i] = 1
    BY DEF KeepGoingInUpdate
  <2>1. keep_going[Root] = 1 /\ keep_going[r] = 1
    BY RanksFacts DEF RoundInv, RootPhase, TruthfulFlags, TypeOK
  <2>2. bcasts[r] = <<>> \/ bcasts[r] = <<1>>
    BY <2>1 DEF RoundInv, RootPhase, Phase, Others
  <2> QED BY <2>1, <2>2
<1> QED BY <1>1, Inductive, PTL

\* Rounds never overlap, so no buffer of a collective is reused under it.
THEOREM RoundsDoNotOverlap == Spec => []OneRound
<1>1. RoundInv => OneRound
  <2> SUFFICES ASSUME RoundInv, NEW r \in Ranks
               PROVE  Len(bcasts[r]) <= 1 /\ Len(contribs[r]) <= 1
    BY DEF OneRound
  <2>1. bcasts[r] = <<>> \/ bcasts[r] = <<keep_going[Root]>>
    BY DEF RoundInv, RootPhase, Phase, Others
  <2>2. contribs[r] = <<>> \/ Len(contribs[r]) = 1
    BY DEF RoundInv, RootPhase, Phase, Others
  <2>3. Len(<<>>) <= 1 /\ Len(<<keep_going[Root]>>) <= 1
    OBVIOUS
  <2>4. Len(bcasts[r]) <= 1
    <3>1. CASE bcasts[r] = <<>>
      BY <2>3, <3>1, Zenon
    <3>2. CASE bcasts[r] = <<keep_going[Root]>>
      BY <2>3, <3>2, Zenon
    <3> QED BY <2>1, <3>1, <3>2
  <2>5. Len(contribs[r]) <= 1
    <3>1. CASE contribs[r] = <<>>
      BY <2>3, <3>1, Zenon
    <3>2. CASE Len(contribs[r]) = 1
      BY <3>2
    <3> QED BY <2>2, <3>1, <3>2
  <2> QED BY <2>4, <2>5
<1> QED BY <1>1, Inductive, PTL

\* A rank frees its communicator with every collective on it matched and complete.
THEOREM FreedClean == Spec => []NothingUnmatched
<1>1. RoundInv => NothingUnmatched
  <2> SUFFICES ASSUME RoundInv, NEW r \in Ranks, pc[r] = "done"
               PROVE  /\ bcasts[r] = <<>> /\ ~bcast_req[r] /\ ~reduce_req[r]
                      /\ r = Root => \A q \in Ranks : contribs[q] = <<>>
    BY DEF NothingUnmatched
  <2>1. CASE r = Root
    BY <2>1 DEF RoundInv, RootPhase, Phase, Others
  <2>2. CASE r # Root
    <3>1. ~reduce_req[r]
      BY DEF RoundInv, TruthfulFlags
    <3>2. Phase(r)
      BY <2>2 DEF RoundInv, Others
    <3>3. bcasts[r] = <<>> /\ ~bcast_req[r]
      BY <3>2 DEF Phase
    <3> QED BY <2>2, <3>1, <3>3
  <2> QED BY <2>1, <2>2
<1> QED BY <1>1, Inductive, PTL

-----------------------------------------------------------------------------
(* The totals: TotalsInv is inductive relative to RoundInv.                  *)

\* While a rank is in its work loop no round is the last, and nothing is claimed.
LEMMA BeforeLastRound ==
    ASSUME RoundInv, RoundInv', NEW q \in Ranks, pc[q] = "update",
           keep_going'[Root] = keep_going[Root]
    PROVE  TotalsInv'
<1>1. keep_going[Root] = 1
  BY RanksFacts DEF RoundInv, RootPhase, TypeOK
<1>2. keep_going'[Root] = 1 /\ pc'[Root] # "done"
  BY <1>1 DEF RoundInv, RootPhase
<1> QED BY <1>2 DEF TotalsInv, LastRoundTrue, FinalTotals

\* What a rank adds as complete to an empty queue is true.
LEMMA TrueContribution ==
    ASSUME RoundInv, TotalsInv, NEW r \in Ranks, contribs[r] = <<>>, Contribute(r, 1),
           keep_going'[Root] = keep_going[Root], UNCHANGED val
    PROVE  LastRoundTrue'
<1>1. contribs' = [contribs EXCEPT ![r] = <<[flag |-> 1, vals |-> val[r]]>>]
  BY AppendEmpty DEF Contribute, Contribution, RoundInv, TypeOK
<1>2. ASSUME keep_going'[Root] = 0, NEW q \in Ranks, contribs'[q] # <<>>
      PROVE  contribs'[q] = <<[flag |-> 1, vals |-> val[q]]>>
  <2>1. CASE q = r
    BY <1>1, <2>1 DEF RoundInv, TypeOK
  <2>2. CASE q # r
    BY <1>1, <1>2, <2>2 DEF RoundInv, TypeOK, TotalsInv, LastRoundTrue
  <2> QED BY <2>1, <2>2
<1> QED BY <1>2 DEF LastRoundTrue

\* Totals that are final stay so: the root changes them no more, and a count grows
\* only in a work loop.
LEMMA TotalsKept ==
    ASSUME TotalsInv, pc'[Root] = pc[Root], UNCHANGED <<val, global_vals>>
    PROVE  FinalTotals'
BY DEF TotalsInv, FinalTotals

\* The last round sums a true contribution of every rank.
LEMMA LastSum ==
    ASSUME RoundInv, TotalsInv, keep_going[Root] = 0, ReduceReady(Root)
    PROVE  Summed = [complete |-> N, total |-> Total(val)]
<1>1. \A r \in Ranks : contribs[r] = <<[flag |-> 1, vals |-> val[r]]>>
  BY DEF ReduceReady, TotalsInv, LastRoundTrue
<1>2. ASSUME NEW r \in Ranks PROVE Head(contribs[r]).flag = 1 /\ Head(contribs[r]).vals = val[r]
  <2> DEFINE c == [flag |-> 1, vals |-> val[r]]
  <2>1. contribs[r] = <<c>>
    BY <1>1
  <2>2. Head(contribs[r]) = c
    BY <2>1
  <2> QED BY <2>2
<1>3. {r \in Ranks : Head(contribs[r]).flag = 1} = Ranks
  BY <1>2
<1>4. Cardinality(Ranks) = N
  BY FS_Interval DEF Ranks
<1>5. [r \in Ranks |-> Head(contribs[r]).vals] = [r \in Ranks |-> val[r]]
  BY <1>2
<1>6. [r \in Ranks |-> val[r]] = val
  BY DEF RoundInv, TypeOK
<1>7. [r \in Ranks |-> Head(contribs[r]).vals] = val
  BY <1>5, <1>6
<1> QED BY <1>3, <1>4, <1>7, Zenon DEF Summed

\* The root's wait ends the last round, or announces it with nothing outstanding.
LEMMA CompleteRootWaitTotals ==
    ASSUME RoundInv, TotalsInv, CompleteRootWait PROVE TotalsInv'
<1> USE RanksFacts
<1>1. CASE keep_going[Root] = 0
  <2>1. reduce_req[Root]
    BY <1>1 DEF RoundInv, RootPhase, CompleteRootWait
  <2>2. ReduceReady(Root) /\ FinishReduce /\ UNCHANGED val
    BY <2>1 DEF CompleteRootWait
  <2>3. contribs' = [r \in Ranks |-> <<>>]
    BY <2>1, <2>2, FinishReduceFacts
  <2>4. LastRoundTrue'
    BY <2>3 DEF LastRoundTrue
  <2>5. FinalTotals'
    BY <1>1, <2>2, LastSum DEF FinishReduce, FinalTotals
  <2> QED BY <2>4, <2>5 DEF TotalsInv
<1>2. CASE keep_going[Root] # 0
  <2>1. pc'[Root] # "done"
    BY <1>2 DEF CompleteRootWait
  <2>2. contribs' = [r \in Ranks |-> <<>>]
    <3>1. CASE reduce_req[Root]
      BY <3>1, FinishReduceFacts DEF CompleteRootWait
    <3>2. CASE ~reduce_req[Root]
      <4>1. UNCHANGED contribs /\ \A r \in Ranks : contribs[r] = <<>>
        BY <3>2 DEF CompleteRootWait, RoundInv, RootPhase, Phase, Others
      <4> QED BY <4>1 DEF RoundInv, TypeOK
    <3> QED BY <3>1, <3>2
  <2> QED BY <2>1, <2>2 DEF TotalsInv, LastRoundTrue, FinalTotals
<1> QED BY <1>1, <1>2

\* Another rank's part in a round that mfu_progress_complete joins.
LEMMA CompleteOtherTotals ==
    ASSUME RoundInv, TotalsInv, NEW r \in Others, CompleteOther(r) PROVE TotalsInv'
<1> USE RanksFacts
<1>1. /\ pc[r] = "complete"
      /\ bcast_req[r] => BcastReady(r)
      /\ IF bcast_req[r] THEN ReceiveBcast(r) ELSE UNCHANGED <<bcasts, keep_going>>
      /\ Contribute(r, 1)
      /\ UNCHANGED <<val, global_vals, printed>>
  BY DEF CompleteOther
<1>2. contribs[r] = <<>> /\ keep_going' = [keep_going EXCEPT ![r] = keep_going[Root]]
  BY <1>1, ReceiveFacts
<1>3. keep_going'[Root] = keep_going[Root]
  BY <1>2 DEF RoundInv, TypeOK
<1>4. pc'[Root] = pc[Root]
  BY DEF CompleteOther, RoundInv, TypeOK
<1>5. LastRoundTrue'
  BY <1>1, <1>2, <1>3, TrueContribution
<1> QED BY <1>1, <1>4, <1>5, TotalsKept DEF TotalsInv

\* What rank 0 holds when the rounds are over is the sum of the work of all ranks,
\* however differently they were timed, for any number of ranks.
THEOREM TotalsAreFinal == Spec => []FinalTotals
<1> USE RanksFacts
<1>1. Init => TotalsInv
  BY DEF Init, TotalsInv, LastRoundTrue, FinalTotals
<1>2. RoundInv /\ RoundInv' /\ TotalsInv /\ [Next]_vars => TotalsInv'
  <2> SUFFICES ASSUME RoundInv, RoundInv', TotalsInv, [Next]_vars PROVE TotalsInv'
    OBVIOUS
  <2>1. ASSUME NEW r \in Ranks, Work(r) \/ EnterComplete(r) PROVE TotalsInv'
    <3>1. pc[r] = "update" /\ UNCHANGED keep_going
      BY <2>1 DEF Work, EnterComplete
    <3> QED BY <3>1, BeforeLastRound
  <2>2. CASE UpdateRootStart \/ UpdateRootTest
    <3>1. pc[Root] = "update" /\ UNCHANGED keep_going
      BY <2>2 DEF UpdateRootStart, UpdateRootTest
    <3> QED BY <3>1, BeforeLastRound
  <2>3. CASE CompleteRootStart
    <3>1. contribs[Root] = <<>> /\ Contribute(Root, 1)
      BY <2>3 DEF CompleteRootStart, StartRound, NoRound, RoundInv, RootPhase
    <3>2. UNCHANGED <<pc, val, keep_going, global_vals>>
      BY <2>3 DEF CompleteRootStart
    <3> QED BY <3>1, <3>2, TrueContribution, TotalsKept DEF TotalsInv
  <2>4. CASE CompleteRootWait
    BY <2>4, CompleteRootWaitTotals
  <2>5. ASSUME NEW r \in Others, UpdateOther(r) PROVE TotalsInv'
    <3>1. pc[r] = "update" /\ keep_going'[Root] = keep_going[Root]
      BY <2>5 DEF UpdateOther, ReceiveBcast, RoundInv, TypeOK
    <3> QED BY <3>1, BeforeLastRound
  <2>6. ASSUME NEW r \in Others, CompleteOther(r) PROVE TotalsInv'
    BY <2>6, CompleteOtherTotals
  <2>7. ASSUME NEW r \in Others, LastWait(r) PROVE TotalsInv'
    <3>1. UNCHANGED <<val, keep_going, contribs, global_vals>> /\ pc'[Root] = pc[Root]
      BY <2>7 DEF LastWait, RoundInv, TypeOK
    <3> QED BY <3>1, TotalsKept DEF TotalsInv, LastRoundTrue
  <2>8. CASE UNCHANGED vars
    BY <2>8, TotalsKept DEF vars, TotalsInv, LastRoundTrue
  <2> QED BY <2>1, <2>2, <2>3, <2>4, <2>5, <2>6, <2>7, <2>8 DEF Next, Finished
<1>3. TotalsInv => FinalTotals
  BY DEF TotalsInv
<1> QED BY <1>1, <1>2, <1>3, Inductive, PTL DEF Spec
=============================================================================
