------------------------------- MODULE Circle -------------------------------
(***************************************************************************)
(* libcircle's work loop with tree termination, as the walk and the        *)
(* removal of file lists use it: ranks ask each other for work, and a tree *)
(* allreduce of flags, repeated until it yields 1, finds out that no work  *)
(* is left anywhere.  Ranks then drain what they still expect and meet in  *)
(* a barrier on the same tree.                                             *)
(*                                                                         *)
(* Each action is one call that the loops of CIRCLE_work_loop make.  Every *)
(* call but the processing of an item starts with MPI_Iprobe, which may    *)
(* not see a message yet, and then does nothing; so a rank's loop is an    *)
(* arbitrary sequence of the calls that do something.  A message is sent   *)
(* by adding it to a set, a count, or a slot for each pair: MPI keeps the  *)
(* order only between messages of one tag, sender and receiver, and those  *)
(* are never two at a time here, as CircleProofs shows.                    *)
(*                                                                         *)
(* Work items are the members of Items; the order in a queue, and which    *)
(* items of it are given away, are left open.  CIRCLE_abort, which no tool *)
(* calls, and the token ring are not modelled; the periodic reductions are *)
(* in CircleReduce.                                                        *)
(***************************************************************************)
EXTENDS Integers, FiniteSets

CONSTANTS
    Ranks,
    Root,            \* rank 0, the root of the tree
    Parent,          \* parent of every other rank
    NoRank,          \* MPI_PROC_NULL
    Items,           \* bound: the work items that can exist, numbered by creation
    InitialQueues,   \* what the create callbacks may enqueue
    MaxNew           \* bound: items that processing one item adds

ASSUME RanksAssumption ==
    /\ IsFiniteSet(Ranks) /\ Root \in Ranks /\ NoRank \notin Ranks
    /\ Parent \in [Ranks \ {Root} -> Ranks]
    /\ \A r \in Ranks \ {Root} : Parent[r] # r
    /\ \A S \in SUBSET Ranks :      \* every rank descends from the root
         Root \in S /\ (\A r \in Ranks \ {Root} : Parent[r] \in S => r \in S) => S = Ranks

ASSUME ItemsAssumption ==
    /\ Items \subseteq Nat /\ IsFiniteSet(Items) /\ MaxNew \in Nat
    /\ InitialQueues \subseteq [Ranks -> SUBSET Items]
    /\ \A q \in InitialQueues : \A r, s \in Ranks : r # s => q[r] \cap q[s] = {}

VARIABLES
    phase,              \* "work" loop, "cleanup" loop or "done"
    queue,              \* the items of each rank's queue
    work_requested,     \* the rank asked for work (work_requested_rank), or NoRank
    work_outstanding,   \* work messages sent and not yet acknowledged
    term_flag, term_up, term_replies,          \* state of the termination allreduce
    barrier_started, barrier_up, barrier_replies,
    request, reply, receipt, term, barrier,    \* messages of each tag in flight
    created, processed, \* items created and processed so far (history)
    turn                \* flips whenever a rank contributes to an allreduce (history)

Pairs == Ranks \X Ranks
Children(r) == {c \in Ranks \ {Root} : Parent[c] = r}

termvars == <<term_flag, term_up, term_replies, turn, term>>
barriervars == <<barrier_started, barrier_up, barrier_replies, barrier>>
items == <<created, processed>>
vars == <<phase, queue, work_requested, work_outstanding, request, reply, receipt,
          termvars, barriervars, items>>

Replies == [from : Ranks, to : Ranks, items : SUBSET Items]
NoFlag == -1     \* no message of the termination allreduce is on its way

TypeOK ==
    /\ phase \in [Ranks -> {"work", "cleanup", "done"}]
    /\ queue \in [Ranks -> SUBSET Items]
    /\ work_requested \in [Ranks -> Ranks \cup {NoRank}]
    /\ work_outstanding \in [Ranks -> Nat]
    /\ term_flag \in [Ranks -> {0, 1}]
    /\ term_up \in [Ranks -> BOOLEAN]
    /\ term_replies \in [Ranks -> Nat]
    /\ barrier_started \in [Ranks -> BOOLEAN] /\ barrier_up \in [Ranks -> BOOLEAN]
    /\ barrier_replies \in [Ranks -> Nat]
    /\ request \subseteq Pairs
    /\ reply \subseteq Replies
    /\ receipt \in [Pairs -> Nat]
    /\ term \in [Pairs -> {NoFlag, 0, 1}]
    /\ barrier \subseteq Pairs
    /\ created \subseteq Items /\ processed \subseteq Items
    /\ turn \in [Ranks -> BOOLEAN]

Init ==
    /\ phase = [r \in Ranks |-> "work"]
    /\ queue \in InitialQueues
    /\ work_requested = [r \in Ranks |-> NoRank]
    /\ work_outstanding = [r \in Ranks |-> 0]
    /\ term_flag = [r \in Ranks |-> 1]
    /\ term_up = [r \in Ranks |-> FALSE]
    /\ term_replies = [r \in Ranks |-> 0]
    /\ barrier_started = [r \in Ranks |-> FALSE] /\ barrier_up = [r \in Ranks |-> FALSE]
    /\ barrier_replies = [r \in Ranks |-> 0]
    /\ request = {} /\ reply = {} /\ barrier = {}
    /\ receipt = [p \in Pairs |-> 0] /\ term = [p \in Pairs |-> NoFlag]
    /\ created = UNION {queue[r] : r \in Ranks} /\ processed = {}
    /\ turn = [r \in Ranks |-> FALSE]

-----------------------------------------------------------------------------
(* The work loop.                                                            *)

\* The process callback takes an item off the queue and may enqueue new ones.
Fresh == {new \in SUBSET (Items \ created) :
            /\ Cardinality(new) <= MaxNew
            /\ \A i \in new, j \in (Items \ created) \ new : i < j}
Process(r) ==
    /\ phase[r] = "work"
    /\ \E i \in queue[r], new \in Fresh :
         /\ queue' = [queue EXCEPT ![r] = (@ \ {i}) \cup new]
         /\ processed' = processed \cup {i}
         /\ created' = created \cup new
    /\ UNCHANGED <<phase, work_requested, work_outstanding, request, reply, receipt,
                   termvars, barriervars>>

\* spread_counts: the share that each of n ranks gets of count items.
SpreadCounts(n, count) == [i \in 0 .. n - 1 |-> (count \div n) + IF i < count % n THEN 1 ELSE 0]

\* What each of the requestors may be sent of a queue q; the rank itself keeps the
\* first share.
Shares(q, requestors) ==
    LET n == Cardinality(requestors) + 1
        sizes == SpreadCounts(n, Cardinality(q))
    IN  {share \in [requestors -> SUBSET q] :
           /\ \A s, t \in requestors : s # t => share[s] \cap share[t] = {}
           /\ \E place \in [requestors -> 1 .. n - 1] :
                /\ \A s, t \in requestors : s # t => place[s] # place[t]
                /\ \A s \in requestors : Cardinality(share[s]) = sizes[place[s]]}

\* CIRCLE_workreq_check: all requests that have come in are served together.
\* Without work, and in cleanup, the reply holds none.
WillShare(r) == phase[r] = "work" /\ queue[r] # {}
Given(r, requestors) == IF WillShare(r) THEN Shares(queue[r], requestors)
                        ELSE {[s \in requestors |-> {}]}
KeepsAll(r, given) == queue[r]   \* mutant
Kept(r, given) == queue[r] \ given
WorkMessages(requestors, share) == Cardinality({s \in requestors : share[s] # {}})
Serve(r) ==
    \E requestors \in SUBSET {s \in Ranks : <<s, r>> \in request} :
    \E share \in Given(r, requestors) :
      /\ phase[r] # "done" /\ requestors # {}
      /\ request' = request \ (requestors \X {r})
      /\ reply' = reply \cup {[from |-> r, to |-> s, items |-> share[s]] : s \in requestors}
      /\ queue' = [queue EXCEPT ![r] = Kept(r, UNION {share[s] : s \in requestors})]
      /\ work_outstanding' = [work_outstanding EXCEPT ![r] = @ + WorkMessages(requestors, share)]
      /\ UNCHANGED <<phase, work_requested, receipt, termvars, barriervars, items>>

\* CIRCLE_workreceipt_check: an acknowledgement forces another allreduce.
FlagKept(r) == term_flag[r]   \* mutant
FlagAfterReceipt(r) == 0
TakeReceipt(r) ==
    /\ phase[r] = "work" /\ work_outstanding[r] > 0
    /\ \E s \in Ranks :
         /\ receipt[<<s, r>>] > 0
         /\ receipt' = [receipt EXCEPT ![<<s, r>>] = @ - 1]
    /\ work_outstanding' = [work_outstanding EXCEPT ![r] = @ - 1]
    /\ term_flag' = [term_flag EXCEPT ![r] = FlagAfterReceipt(r)]
    /\ UNCHANGED <<phase, queue, work_requested, request, reply, term_up, term_replies,
                   turn, term, barriervars, items>>

\* CIRCLE_request_work with no request outstanding: ask a rank picked at random.
MayAskAgain(r) == phase[r] = "work" /\ queue[r] = {}     \* mutant
MayAsk(r) == phase[r] = "work" /\ queue[r] = {} /\ work_requested[r] = NoRank
Ask(r) ==
    /\ MayAsk(r)
    /\ \E s \in Ranks \ {r} :
         /\ request' = request \cup {<<r, s>>}
         /\ work_requested' = [work_requested EXCEPT ![r] = s]
    /\ UNCHANGED <<phase, queue, work_outstanding, reply, receipt, termvars, barriervars, items>>

\* CIRCLE_request_work with one outstanding, and CIRCLE_work_receive: what arrives
\* becomes the queue, and is acknowledged.
Receive(r) ==
    /\ \/ phase[r] = "work" /\ queue[r] = {}
       \/ phase[r] = "cleanup"
    /\ \E m \in reply :
         /\ m.to = r /\ m.from = work_requested[r]
         /\ reply' = reply \ {m}
         /\ IF m.items = {}
              THEN UNCHANGED <<queue, receipt>>
              ELSE /\ queue' = [queue EXCEPT ![r] = m.items]
                   /\ receipt' = [receipt EXCEPT ![<<r, m.from>>] = @ + 1]
    /\ work_requested' = [work_requested EXCEPT ![r] = NoRank]
    /\ UNCHANGED <<phase, work_outstanding, request, termvars, barriervars, items>>

-----------------------------------------------------------------------------
(* CIRCLE_check_for_term_allreduce.                                          *)

\* Messages from any source are taken for children's until all children have been
\* heard; their flags are ANDed with the rank's own.
Heard(r) == {seen \in SUBSET {s \in Ranks : term[<<s, r>>] # NoFlag} :
               Cardinality(seen) <= Cardinality(Children(r)) - term_replies[r]}
AndFlags(r, seen) == IF term_flag[r] = 1 /\ \A s \in seen : term[<<s, r>>] = 1 THEN 1 ELSE 0

\* The channels once r has received from the ranks in seen and sent flag to those in to.
Exchanged(r, seen, to, flag) ==
    [p \in Pairs |-> IF p[2] = r /\ p[1] \in seen THEN NoFlag
                     ELSE IF p[1] = r /\ p[2] \in to THEN flag ELSE term[p]]

\* With work unacknowledged, or children missing, the call does no more than that.
Waits(r, flag, replies, seen) ==
    /\ seen # {}
    /\ term' = Exchanged(r, seen, {}, flag)
    /\ term_flag' = [term_flag EXCEPT ![r] = flag]
    /\ term_replies' = [term_replies EXCEPT ![r] = replies]
    /\ UNCHANGED <<term_up, turn, phase>>

FlagLeft(r) == term_flag[r]   \* mutant
FreshFlag(r) == 1

\* A rank other than the root sends the partial result up, once.
Contributes(r, flag, replies, seen) ==
    /\ term' = Exchanged(r, seen, {Parent[r]}, flag)
    /\ term_flag' = [term_flag EXCEPT ![r] = FreshFlag(r)]
    /\ term_up' = [term_up EXCEPT ![r] = TRUE]
    /\ term_replies' = [term_replies EXCEPT ![r] = replies]
    /\ turn' = [turn EXCEPT ![r] = ~@]
    /\ UNCHANGED phase

\* The result is forwarded to the children; if it is 1 the rank leaves the work loop.
Completes(r, result, seen) ==
    /\ term' = Exchanged(r, seen, Children(r), result)
    /\ term_up' = [term_up EXCEPT ![r] = FALSE]
    /\ term_replies' = [term_replies EXCEPT ![r] = 0]
    /\ phase' = [phase EXCEPT ![r] = IF result = 1 THEN "cleanup" ELSE @]

MayContributeAlways(r) == TRUE    \* mutant
MayContribute(r) == work_outstanding[r] = 0
CheckForTerm(r) ==
    /\ phase[r] = "work" /\ queue[r] = {}
    /\ \E seen \in Heard(r) :
         LET flag == AndFlags(r, seen)
             replies == term_replies[r] + Cardinality(seen)
             complete == replies = Cardinality(Children(r))
         IN \/ /\ ~MayContribute(r) \/ (~term_up[r] /\ ~complete)
               /\ Waits(r, flag, replies, seen)
            \/ /\ MayContribute(r) /\ ~term_up[r] /\ complete /\ r # Root
               /\ Contributes(r, flag, replies, seen)
            \/ /\ MayContribute(r) /\ complete /\ r = Root
               /\ Completes(r, flag, seen)
               /\ term_flag' = [term_flag EXCEPT ![r] = FreshFlag(r)]
               /\ turn' = [turn EXCEPT ![r] = ~@]
            \/ /\ MayContribute(r) /\ term_up[r] /\ r # Root /\ term[<<Parent[r], r>>] # NoFlag
               /\ Completes(r, term[<<Parent[r], r>>], {Parent[r]})
               /\ UNCHANGED <<term_flag, turn>>
    /\ UNCHANGED <<queue, work_requested, work_outstanding, request, reply, receipt,
                   barriervars, items>>

-----------------------------------------------------------------------------
(* The cleanup loop: Serve, Receive, and the barrier.                        *)

\* CIRCLE_barrier_start and CIRCLE_barrier_test: a rank takes part once it expects no
\* reply.  It hears one child in a call, tells its parent when it has heard all, and is
\* done, telling its children, when its parent says so.
MayStartAlways(r) == TRUE    \* mutant
MayStart(r) == work_requested[r] = NoRank
BarrierTest(r) ==
    /\ phase[r] = "cleanup"
    /\ barrier_started[r] \/ MayStart(r)
    /\ barrier_started' = [barrier_started EXCEPT ![r] = TRUE]
    /\ \E heard \in SUBSET {p \in barrier : p[2] = r /\ barrier_replies[r] < Cardinality(Children(r))} :
         LET replies == barrier_replies[r] + Cardinality(heard)
             complete == replies = Cardinality(Children(r))
         IN /\ Cardinality(heard) <= 1
            /\ \/ /\ ~complete /\ heard # {}
                  /\ barrier' = barrier \ heard
                  /\ barrier_replies' = [barrier_replies EXCEPT ![r] = replies]
                  /\ UNCHANGED <<barrier_up, phase>>
               \/ /\ complete /\ ~barrier_up[r] /\ r # Root
                  /\ barrier' = (barrier \ heard) \cup {<<r, Parent[r]>>}
                  /\ barrier_replies' = [barrier_replies EXCEPT ![r] = replies]
                  /\ barrier_up' = [barrier_up EXCEPT ![r] = TRUE]
                  /\ UNCHANGED phase
               \/ /\ IF r = Root THEN complete
                     ELSE barrier_up[r] /\ <<Parent[r], r>> \in barrier
                  /\ barrier' = (barrier \ (heard \cup IF r = Root THEN {} ELSE {<<Parent[r], r>>}))
                                \cup {<<r, c>> : c \in Children(r)}
                  /\ barrier_replies' = [barrier_replies EXCEPT ![r] = 0]
                  /\ barrier_up' = [barrier_up EXCEPT ![r] = FALSE]
                  /\ phase' = [phase EXCEPT ![r] = "done"]
    /\ UNCHANGED <<queue, work_requested, work_outstanding, request, reply, receipt,
                   termvars, items>>

-----------------------------------------------------------------------------
Call(r) == Process(r) \/ Serve(r) \/ TakeReceipt(r) \/ Ask(r) \/ Receive(r)
           \/ CheckForTerm(r) \/ BarrierTest(r)
Next == \E r \in Ranks : Call(r)

Spec == Init /\ [][Next]_vars

\* A rank's loop makes every one of its calls again and again, and MPI delivers what
\* was sent; so a call that would do something is made in the end.
Fairness == \A r \in Ranks :
    /\ WF_vars(Process(r)) /\ WF_vars(Serve(r)) /\ WF_vars(TakeReceipt(r))
    /\ WF_vars(Receive(r)) /\ WF_vars(CheckForTerm(r)) /\ WF_vars(BarrierTest(r))
FairSpec == Spec /\ Fairness

-----------------------------------------------------------------------------
(* Properties.                                                               *)

InFlight(r) == {m \in reply : m.to = r /\ m.items # {}}

\* A rank has at most one request on its way or being answered, so no two replies to
\* it can overtake each other, and a rank collects no more requests than there are ranks.
Handshake ==
    \A r, s \in Ranks :
        IF work_requested[r] = s
          THEN IF <<r, s>> \in request THEN \A m \in reply : m.to # r \/ m.from # s
               ELSE \E m \in reply : m.to = r /\ m.from = s
                      /\ \A n \in reply : n.to = r /\ n.from = s => n = m
          ELSE <<r, s>> \notin request /\ \A m \in reply : m.to # r \/ m.from # s

\* Every item created is in one place only: processed, in one queue, or in one message.
EachItemOnce ==
    /\ created = processed \cup UNION ({queue[r] : r \in Ranks} \cup {m.items : m \in reply})
    /\ \A r \in Ranks : /\ queue[r] \cap processed = {}
                        /\ \A s \in Ranks \ {r} : queue[r] \cap queue[s] = {}
                        /\ \A m \in reply : queue[r] \cap m.items = {}
    /\ \A m \in reply : /\ m.items \cap processed = {}
                        /\ \A n \in reply \ {m} : m.items \cap n.items = {}

\* "there is both no outstanding work transfer message for this process nor any
\* additional termination allreduce messages": once a rank has left the work loop all
\* work is done, nothing is unacknowledged anywhere, and no such message will reach it.
NoWorkLeft ==
    \A r \in Ranks : phase[r] # "work" =>
        /\ processed = created
        /\ \A s \in Ranks : work_outstanding[s] = 0 /\ receipt[<<r, s>>] = 0 /\ receipt[<<s, r>>] = 0
        /\ \A s \in Ranks : term[<<s, r>>] = NoFlag

\* "all sent messages have been received before returning control to the user": when
\* the first rank is done, nothing but barrier messages is on its way to anyone.
CleanExit ==
    (\E r \in Ranks : phase[r] = "done") =>
        /\ request = {} /\ reply = {} /\ \A p \in Pairs : term[p] = NoFlag /\ receipt[p] = 0
        /\ \A r \in Ranks : phase[r] # "work" /\ work_requested[r] = NoRank

\* The wave of an allreduce: either something will make its result 0, or the ranks that
\* have contributed to it are out of work, for good.
Contributed == {r \in Ranks : turn[r] # turn[Root]}
Spoiled ==
    \/ \E r \in Ranks \ Contributed : term_flag[r] = 0 \/ work_outstanding[r] > 0
    \/ \E r \in Contributed : term[<<r, Parent[r]>>] = 0
Wave == \/ Spoiled
        \/ \A r \in Contributed : /\ queue[r] = {} /\ InFlight(r) = {}
                                  /\ work_outstanding[r] = 0

\* Every rank returns.
AllDone == <>(\A r \in Ranks : phase[r] = "done")

\* What the ranks do together is what WorkPool promises.
Pool == INSTANCE WorkPool WITH
            Initial <- {UNION {q[r] : r \in Ranks} : q \in InitialQueues},
            returned <- {r \in Ranks : phase[r] # "work"}
ImplementsPool == Pool!LiveSpec
=============================================================================
