------------------------------ MODULE Progress ------------------------------
(***************************************************************************)
(* The progress messages of mfu_progress.c.  While the ranks of a job work *)
(* through a list at different speeds, rank 0 now and then starts a round: *)
(* an Ibcast of its keep_going flag followed by an Ireduce that sums a     *)
(* completion flag and the amount of work done.  Each rank joins the round *)
(* from its work loop (mfu_progress_update) or, once its work is finished, *)
(* from mfu_progress_complete, which no rank may leave before the last     *)
(* collective of the last round is matched on every rank.                  *)
(*                                                                         *)
(* MPI is modelled by what it promises for nonblocking collectives on one  *)
(* communicator: the k-th Ibcast (Ireduce) of a rank matches the k-th of   *)
(* every other.  bcasts[r] holds the flags that rank 0 has sent and rank r *)
(* has not received; contribs[r] what r has contributed and rank 0 has not *)
(* summed.  A request may complete as soon as its data allows, or not      *)
(* before every rank has joined: MPI is free to do either.  The timer is a *)
(* nondeterministic choice, and one summed value stands for "count" many.  *)
(* A timeout of 0 seconds (prg == NULL) disables everything here.          *)
(***************************************************************************)
EXTENDS Naturals, Sequences, FiniteSets, Functions

CONSTANTS
    N,        \* number of ranks of the communicator
    MaxWork   \* bound: units of work a rank reports at most

ASSUME NAssumption == N \in Nat \ {0}
ASSUME MaxWorkAssumption == MaxWork \in Nat

Root   == 0
Ranks  == 0 .. N - 1
Others == Ranks \ {Root}

VARIABLES
    pc,           \* "update": in its work loop; "complete": in mfu_progress_complete;
                  \* "last": waits for its last reduce; "done": has freed prg
    val,          \* the caller's count of finished work
    keep_going,   \* prg->keep_going of each rank
    bcast_req,    \* prg->bcast_req is not MPI_REQUEST_NULL
    reduce_req,   \* prg->reduce_req is not MPI_REQUEST_NULL
    bcasts,       \* flags broadcast by the root, by receiver, oldest first
    contribs,     \* contributions not yet reduced, by sender, oldest first
    global_vals,  \* prg->global_vals of rank 0: [complete, total]
    printed       \* what the last progress message said

vars == <<pc, val, keep_going, bcast_req, reduce_req, bcasts, contribs,
          global_vals, printed>>

TypeOK ==
    /\ pc \in [Ranks -> {"update", "complete", "last", "done"}]
    /\ val \in [Ranks -> Nat]
    /\ keep_going \in [Ranks -> {0, 1}]
    /\ bcast_req \in [Ranks -> BOOLEAN]
    /\ reduce_req \in [Ranks -> BOOLEAN]
    /\ bcasts \in [Ranks -> Seq({0, 1})]
    /\ contribs \in [Ranks -> Seq([flag : {0, 1}, vals : Nat])]
    /\ global_vals.complete \in Nat
    /\ printed.complete \in Nat

-----------------------------------------------------------------------------
(* The nonblocking collectives.                                             *)

\* The earliest moment at which a request of rank r can complete.
BcastReady(r)  == r # Root => bcasts[r] # <<>>
ReduceReady(r) == r = Root => \A q \in Ranks : contribs[q] # <<>>

\* The latest: every rank has joined the round the request belongs to.
BcastMatched == \A q \in Others : bcasts[q] # <<>> => bcast_req[q]
ReduceMatched(r) == contribs[r] = <<>> \/ \A q \in Ranks : contribs[q] # <<>>

\* The flags MPI_Test may return; a null request always tests as done.
TestBcast(r)  == IF bcast_req[r] THEN {FALSE} \cup {b \in {TRUE} : BcastReady(r)}
                                 ELSE {TRUE}
TestReduce(r) == IF reduce_req[r] THEN {FALSE} \cup {b \in {TRUE} : ReduceReady(r)}
                                  ELSE {TRUE}

\* The sum of a value over all ranks.
Total(vals) == FoldFunction(+, 0, vals)

\* The element-wise MPI_SUM of the oldest contribution of every rank.
Summed == [complete |-> Cardinality({r \in Ranks : Head(contribs[r]).flag = 1}),
           total    |-> Total([r \in Ranks |-> Head(contribs[r]).vals])]

\* mfu_progress_reduce: what a rank contributes, the flag and its current count.
ContributionStale(r, complete) == [flag |-> complete, vals |-> (1 - complete) * val[r]]
Contribution(r, complete) == [flag |-> complete, vals |-> val[r]]
Contribute(r, complete) ==
    contribs' = [contribs EXCEPT ![r] = Append(@, Contribution(r, complete))]

\* Completion of a pending Ibcast on a rank that is not the root.
ReceiveBcast(r) ==
    /\ bcasts' = [bcasts EXCEPT ![r] = Tail(@)]
    /\ keep_going' = [keep_going EXCEPT ![r] = Head(bcasts[r])]

\* Completion of the pending Ireduce on the root.
FinishReduce ==
    /\ contribs' = [r \in Ranks |-> Tail(contribs[r])]
    /\ global_vals' = Summed

\* The root may start a round: both of its requests are null.
NoRoundBcastOnly == ~bcast_req[Root]   \* mutant
NoRound == ~bcast_req[Root] /\ ~reduce_req[Root]

\* The root's keep_going flag after a round summed to sums: the round that every
\* rank joined as complete makes the next one the last.
NextFlagOthers(flag, sums) == IF sums.complete >= N - 1 THEN 0 ELSE flag
NextFlagCount(flag, sums) == N - sums.complete
NextFlagNever(flag, sums) == flag
NextFlag(flag, sums) == IF sums.complete = N THEN 0 ELSE flag

\* Another rank that has received flag posts the bcast of a next round.
PostsNextAlways(flag) == TRUE
PostsNext(flag) == flag = 1

-----------------------------------------------------------------------------
\* mfu_progress_start: all ranks but the root post the first bcast.
Init ==
    /\ pc = [r \in Ranks |-> "update"]
    /\ val = [r \in Ranks |-> 0]
    /\ keep_going = [r \in Ranks |-> 1]
    /\ bcast_req = [r \in Ranks |-> r # Root]
    /\ reduce_req = [r \in Ranks |-> FALSE]
    /\ bcasts = [r \in Ranks |-> <<>>]
    /\ contribs = [r \in Ranks |-> <<>>]
    /\ global_vals = [complete |-> 0, total |-> 0]
    /\ printed = [complete |-> 0, total |-> 0]

\* The caller finishes an item between two calls of mfu_progress_update.
Work(r) ==
    /\ pc[r] = "update"
    /\ val[r] < MaxWork
    /\ val' = [val EXCEPT ![r] = @ + 1]
    /\ UNCHANGED <<pc, keep_going, bcast_req, reduce_req, bcasts, contribs,
                   global_vals, printed>>

\* The root posts the bcast and the reduce of a new round.
StartRound(complete) ==
    /\ NoRound
    /\ bcast_req' = [bcast_req EXCEPT ![Root] = TRUE]
    /\ reduce_req' = [reduce_req EXCEPT ![Root] = TRUE]
    /\ bcasts' = [r \in Ranks |-> IF r = Root THEN bcasts[r]
                                  ELSE Append(bcasts[r], keep_going[Root])]
    /\ Contribute(Root, complete)

\* mfu_progress_update on rank 0, the timeout having expired.
UpdateRootStart ==
    /\ pc[Root] = "update"
    /\ StartRound(0)
    /\ UNCHANGED <<pc, val, keep_going, global_vals, printed>>

\* mfu_progress_update on rank 0 with a round under way: test both requests.
UpdateRootTest ==
    /\ pc[Root] = "update"
    /\ bcast_req[Root] \/ reduce_req[Root]
    /\ \E bcast_done \in TestBcast(Root), reduce_done \in TestReduce(Root) :
         /\ bcast_req' = [bcast_req EXCEPT ![Root] = ~bcast_done]
         /\ reduce_req' = [reduce_req EXCEPT ![Root] = ~reduce_done]
         /\ IF reduce_req[Root] /\ reduce_done
              THEN FinishReduce
              ELSE UNCHANGED <<contribs, global_vals>>
         /\ printed' = IF bcast_done /\ reduce_done THEN global_vals' ELSE printed
    /\ UNCHANGED <<pc, val, keep_going, bcasts>>

\* mfu_progress_update on another rank: join the round once the bcast is in and
\* the previous reduce is out, provided the rank's own timeout has expired.
UpdateOther(r) ==
    /\ pc[r] = "update"
    /\ \E bcast_done \in TestBcast(r), reduce_done \in TestReduce(r), expired \in BOOLEAN :
         LET join == expired /\ bcast_done /\ reduce_done IN
         /\ IF bcast_req[r] /\ bcast_done
              THEN ReceiveBcast(r)
              ELSE UNCHANGED <<bcasts, keep_going>>
         /\ bcast_req' = [bcast_req EXCEPT ![r] = join \/ ~bcast_done]
         /\ reduce_req' = [reduce_req EXCEPT ![r] = join \/ ~reduce_done]
         /\ IF join THEN Contribute(r, 0) ELSE UNCHANGED contribs
    /\ UNCHANGED <<pc, val, global_vals, printed>>

\* The work loop is over and the caller enters mfu_progress_complete.
EnterComplete(r) ==
    /\ pc[r] = "update"
    /\ pc' = [pc EXCEPT ![r] = "complete"]
    /\ UNCHANGED <<val, keep_going, bcast_req, reduce_req, bcasts, contribs,
                   global_vals, printed>>

\* mfu_progress_complete on rank 0: another round ...
CompleteRootStart ==
    /\ pc[Root] = "complete"
    /\ StartRound(1)
    /\ UNCHANGED <<pc, val, keep_going, global_vals, printed>>

\* ... and the wait for it.  The round that carried keep_going = 0 is the last.
\* Nothing is printed before the first timeout has passed.
CompleteRootWait ==
    /\ pc[Root] = "complete"
    /\ bcast_req[Root] \/ reduce_req[Root]
    /\ reduce_req[Root] => ReduceReady(Root)
    /\ bcast_req' = [bcast_req EXCEPT ![Root] = FALSE]
    /\ reduce_req' = [reduce_req EXCEPT ![Root] = FALSE]
    /\ IF reduce_req[Root] THEN FinishReduce ELSE UNCHANGED <<contribs, global_vals>>
    /\ IF keep_going[Root] = 0
         THEN /\ pc' = [pc EXCEPT ![Root] = "done"]
              /\ UNCHANGED <<keep_going, printed>>
         ELSE /\ printed' \in {printed, global_vals'}
              /\ keep_going' = [keep_going EXCEPT ![Root] = NextFlag(@, global_vals')]
              /\ UNCHANGED pc
    /\ UNCHANGED <<val, bcasts>>

\* mfu_progress_complete on another rank: wait for the reduce and the bcast,
\* contribute, and post the next bcast unless this round is the last.
CompleteOther(r) ==
    /\ pc[r] = "complete"
    /\ reduce_req[r] => ReduceReady(r)
    /\ bcast_req[r] => BcastReady(r)
    /\ IF bcast_req[r] THEN ReceiveBcast(r) ELSE UNCHANGED <<bcasts, keep_going>>
    /\ Contribute(r, 1)
    /\ reduce_req' = [reduce_req EXCEPT ![r] = TRUE]
    /\ bcast_req' = [bcast_req EXCEPT ![r] = PostsNext(keep_going'[r])]
    /\ pc' = [pc EXCEPT ![r] = IF keep_going'[r] = 1 THEN "complete" ELSE "last"]
    /\ UNCHANGED <<val, global_vals, printed>>

\* The wait on the last reduce, after which prg and its communicator are freed.
LastWait(r) ==
    /\ pc[r] = "last"
    /\ reduce_req' = [reduce_req EXCEPT ![r] = FALSE]
    /\ pc' = [pc EXCEPT ![r] = "done"]
    /\ UNCHANGED <<val, keep_going, bcast_req, bcasts, contribs, global_vals, printed>>

Finished == (\A r \in Ranks : pc[r] = "done") /\ UNCHANGED vars

Next ==
    \/ \E r \in Ranks : Work(r) \/ EnterComplete(r)
    \/ UpdateRootStart \/ UpdateRootTest
    \/ CompleteRootStart \/ CompleteRootWait
    \/ \E r \in Others : UpdateOther(r) \/ CompleteOther(r) \/ LastWait(r)
    \/ Finished

\* Work loops are finite, and a wait returns once every rank has joined the
\* collective it waits for.  Nothing is assumed of how often update is called.
Fairness ==
    /\ \A r \in Ranks : WF_vars(EnterComplete(r))
    /\ WF_vars(CompleteRootStart)
    /\ WF_vars(BcastMatched /\ ReduceMatched(Root) /\ CompleteRootWait)
    /\ \A r \in Others :
         /\ WF_vars((bcast_req[r] => BcastMatched) /\ (reduce_req[r] => ReduceMatched(r))
                    /\ CompleteOther(r))
         /\ WF_vars(ReduceMatched(r) /\ LastWait(r))

Spec == Init /\ [][Next]_vars /\ Fairness

-----------------------------------------------------------------------------
(* Properties.                                                              *)

\* "since we are not in complete, we can infer that keep_going must be 1": a rank
\* still in its work loop never holds, and is never about to receive, the flag
\* that stops the rounds.  update relies on it when it posts another bcast.
KeepGoingInUpdate ==
    \A r \in Ranks : pc[r] = "update" =>
        keep_going[r] = 1 /\ \A i \in 1 .. Len(bcasts[r]) : bcasts[r][i] = 1

\* Rank 0 starts a round only when the one before is over, so the buffers of a
\* collective (keep_going, values, global_vals) are never reused under it: no rank
\* has two flags to receive or two contributions to be summed.
OneRound == \A r \in Ranks : Len(bcasts[r]) <= 1 /\ Len(contribs[r]) <= 1

\* A rank that has freed its communicator leaves no collective behind: nothing
\* broadcast to it is unreceived and it has no request under way, and when rank 0
\* has freed its own, the contributions of all ranks have been summed.
NothingUnmatched ==
    \A r \in Ranks : pc[r] = "done" =>
        /\ bcasts[r] = <<>> /\ ~bcast_req[r] /\ ~reduce_req[r]
        /\ r = Root => \A q \in Ranks : contribs[q] = <<>>

\* The sums rank 0 holds when the rounds are over are those of all the work done,
\* although ranks contributed at different times and in different functions.
FinalTotals ==
    pc[Root] = "done" =>
        global_vals = [complete |-> N, total |-> Total(val)]

\* Where another rank stands in the current round, which is under way exactly while
\* the root's own contribution is unreduced.  A rank that has contributed to the
\* round has already posted the bcast of the next, unless this round is the last.
Phase(r) ==
    LET joined == IF keep_going[Root] = 1
                    THEN bcast_req[r] /\ pc[r] \in {"update", "complete"}
                    ELSE ~bcast_req[r] /\ pc[r] \in {"last", "done"}
    IN \/ /\ contribs[Root] = <<>> /\ bcasts[r] = <<>> /\ contribs[r] = <<>>
          /\ IF pc[Root] = "done"
               THEN joined
               ELSE bcast_req[r] /\ pc[r] \in {"update", "complete"}
       \/ /\ contribs[Root] # <<>> /\ bcasts[r] = <<keep_going[Root]>> /\ contribs[r] = <<>>
          /\ bcast_req[r] /\ pc[r] \in {"update", "complete"}
       \/ /\ contribs[Root] # <<>> /\ bcasts[r] = <<>> /\ contribs[r] = <<>>
          /\ ~bcast_req[r] /\ pc[r] \in {"update", "complete"}
          /\ keep_going[r] = keep_going[Root]
       \/ /\ contribs[Root] # <<>> /\ bcasts[r] = <<>> /\ Len(contribs[r]) = 1
          /\ joined

\* The root: its contribution is unreduced exactly while its reduce is under way,
\* it stops only after the round it announced as the last, and it announces that
\* only when every rank has left its work loop.
RootPhase ==
    /\ bcasts[Root] = <<>> /\ pc[Root] # "last"
    /\ contribs[Root] = <<>> \/ Len(contribs[Root]) = 1
    /\ reduce_req[Root] <=> contribs[Root] # <<>>
    /\ pc[Root] = "done" => keep_going[Root] = 0 /\ ~bcast_req[Root] /\ ~reduce_req[Root]
    /\ keep_going[Root] = 0 /\ bcast_req[Root] => reduce_req[Root]
    /\ keep_going[Root] = 0 \/ global_vals.complete = N => \A r \in Ranks : pc[r] # "update"

\* Flags are truthful: a contribution flagged complete comes from a rank that has
\* left its work loop, a received flag of 0 from a root that sent it.
TruthfulFlags ==
    \A r \in Ranks :
        /\ \A i \in 1 .. Len(contribs[r]) : contribs[r][i].flag = 1 => pc[r] # "update"
        /\ keep_going[r] = 0 => keep_going[Root] = 0
        /\ pc[r] = "done" => ~reduce_req[r]

\* The inductive invariant behind the three invariants above.
RoundInv ==
    /\ TypeOK
    /\ RootPhase
    /\ \A r \in Others : Phase(r)
    /\ TruthfulFlags

\* With RoundInv, the inductive invariant behind FinalTotals: in the round announced
\* as the last every rank contributes as complete, and the count it contributes is
\* the one it keeps.
LastRoundTrue ==
    keep_going[Root] = 0 =>
        \A r \in Ranks : contribs[r] # <<>> =>
            contribs[r] = <<[flag |-> 1, vals |-> val[r]]>>

TotalsInv == LastRoundTrue /\ FinalTotals

\* Every rank returns from mfu_progress_complete: no rank waits for a collective
\* that another never joins, even if MPI completes none before all have joined.
AllReturn == <>(\A r \in Ranks : pc[r] = "done")
=============================================================================
