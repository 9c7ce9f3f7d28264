---------------------------- MODULE CircleReduce -----------------------------
(* libcircle's periodic reductions, as the walk uses them for its messages:  *)
(* now and then the root asks down the tree for counts, every rank adds its  *)
(* own to its children's and sends them up, while all go on with their work. *)
(* A rank that has left the work loop declines; before it meets the others   *)
(* in the barrier it waits for the reduction that it takes part in, and      *)
(* after the barrier a last, synchronous one has the final counts.           *)
(*                                                                           *)
(* How work is shared and when a rank learns that none is left is Circle's   *)
(* matter: here a rank may leave the work loop once all objects are done,    *)
(* which is Circle's NoWorkLeft.  Circle has the other tags as well.  Every  *)
(* action is a call of the loops that does something; MPI_Iprobe may miss a  *)
(* message, so it may come late.  What a rank sends its parent, the counts   *)
(* and the user's data if they are valid, are two messages one after the     *)
(* other, received so; they are one here.                                    *)
EXTENDS Integers, Sequences, FiniteSets

CONSTANTS
    Procs, Top,     \* the ranks, and the root of the tree
    ParentOf,       \* the parent of every other rank
    Objects,        \* bound: the objects that are processed
    MaxReduces      \* bound: how often the root's interval ends

\* CIRCLE_tree_init: every rank descends from the root.
TreeAssumption ==
    /\ IsFiniteSet(Procs) /\ Top \in Procs
    /\ ParentOf \in [Procs \ {Top} -> Procs]
    /\ \A S \in SUBSET Procs :
          Top \in S /\ (\A r \in Procs \ {Top} : ParentOf[r] \in S => r \in S) => S = Procs
    /\ Objects \in Nat

VARIABLES
    loop,           \* "work", "cleanup", "sync" (CIRCLE_reduce_sync) or "done"
    objects,        \* local_objects_processed
    unworked,       \* objects that nobody has processed
    outstanding,    \* reduce_outstanding
    sum,            \* reduce_replies, reduce_buf and the user's buffer
    requests,       \* how many messages of its parent each rank has not received
    sent,           \* what a rank has sent its parent, not yet received
    met,            \* barrier_replies and barrier_up
    arrived, released,  \* barrier messages of a rank to its parent, and back
    starts,         \* how many reductions the root has started
    printed         \* what the root has printed

sumVars == <<loop, objects, unworked, outstanding, sum, requests, sent, met, arrived, released,
             starts, printed>>
reduction == <<outstanding, sum, requests, sent, starts, printed>>
barrier == <<met, arrived, released>>

Children(r) == {c \in Procs \ {Top} : ParentOf[c] = r}
Expected(r) == Cardinality(Children(r))

\* A count of objects, and the user's, which the callback reads at the start.
Fresh(total, user) == [replies |-> 0, valid |-> TRUE, total |-> total, user |-> user]
\* MSG_INVALID; what is summed then is never looked at.
Invalid(replies) == [replies |-> replies, valid |-> FALSE, total |-> 0, user |-> 0]

SumInit ==
    /\ loop = [r \in Procs |-> "work"] /\ objects = [r \in Procs |-> 0] /\ unworked = Objects
    /\ outstanding = [r \in Procs |-> FALSE] /\ sum = [r \in Procs |-> Fresh(0, 0)]
    /\ requests = [r \in Procs |-> 0] /\ sent = [r \in Procs |-> <<>>]
    /\ met = [r \in Procs |-> [replies |-> 0, up |-> FALSE]]
    /\ arrived = [r \in Procs |-> FALSE] /\ released = [r \in Procs |-> FALSE]
    /\ starts = 0 /\ printed = <<>>

Process(r) ==
    /\ loop[r] = "work" /\ unworked > 0
    /\ unworked' = unworked - 1 /\ objects' = [objects EXCEPT ![r] = @ + 1]
    /\ UNCHANGED <<loop, reduction, barrier>>

Leave(r) ==
    /\ loop[r] = "work" /\ unworked = 0
    /\ loop' = [loop EXCEPT ![r] = "cleanup"]
    /\ UNCHANGED <<objects, unworked, reduction, barrier>>

-----------------------------------------------------------------------------
(* CIRCLE_reduce_check                                                       *)

\* The messages of the tree in the call of a rank that has heard some children:
\* one of its parent's less if it heard that, one to each child if it asks them,
\* and what it sends up.
Asks(r, heard, asks) ==
    requests' = [p \in Procs |-> requests[p] - (IF p = r /\ heard THEN 1 ELSE 0)
                                + (IF asks /\ p \in Children(r) THEN 1 ELSE 0)]
Sends(r, seen, messages) ==
    sent' = [p \in Procs |-> IF p \in seen THEN Tail(sent[p])
                             ELSE IF p = r THEN sent[p] \o messages ELSE sent[p]]

\* The root when its time has come, another rank when its parent has asked.
StartReduce(r) ==
    /\ loop[r] = "work" /\ ~outstanding[r]
    /\ IF r = Top THEN starts < MaxReduces /\ starts' = starts + 1
                  ELSE requests[r] > 0 /\ UNCHANGED starts
    /\ outstanding' = [outstanding EXCEPT ![r] = TRUE]
    /\ sum' = [sum EXCEPT ![r] = Fresh(0, objects[r])]
    /\ Asks(r, r # Top, TRUE)
    /\ UNCHANGED <<loop, objects, unworked, sent, printed, barrier>>

\* In cleanup the root starts none, and another rank declines.
Decline(r) ==
    /\ loop[r] = "cleanup" /\ ~outstanding[r]
    /\ r # Top /\ requests[r] > 0
    /\ Asks(r, TRUE, FALSE) /\ Sends(r, {}, <<Invalid(0)>>)
    /\ UNCHANGED <<loop, objects, unworked, outstanding, sum, starts, printed, barrier>>

\* The sum of numbers, as the size of the union of sets of these sizes.
SumOver(f, S) == Cardinality(UNION {{x} \X (1 .. f[x]) : x \in S})

\* The sum of a rank with what it has heard of some children.
Total(seen) == SumOver([c \in seen |-> Head(sent[c]).total], seen)
UserTotal(seen) == SumOver([c \in seen |-> Head(sent[c]).user], seen)
With(r, seen) ==
    LET replies == sum[r].replies + Cardinality(seen)
    IN  IF sum[r].valid /\ \A c \in seen : Head(sent[c]).valid
        THEN [replies |-> replies, valid |-> TRUE, total |-> sum[r].total + Total(seen),
              user |-> sum[r].user + UserTotal(seen)]
        ELSE Invalid(replies)

\* Some children's messages have come; with the last of them the rank adds its own
\* count, and sends the sum up or, at the root, prints it.
Reduce(r) ==
    /\ loop[r] \in {"work", "cleanup"} /\ outstanding[r]
    /\ \E seen \in SUBSET {c \in Children(r) : sent[c] # <<>>} :
          LET s == With(r, seen)
              own == [s EXCEPT !.total = IF s.valid THEN @ + objects[r] ELSE @]
          IN  \/ /\ seen # {} /\ s.replies < Expected(r)
                 /\ sum' = [sum EXCEPT ![r] = s]
                 /\ Sends(r, seen, <<>>)
                 /\ UNCHANGED <<outstanding, printed>>
              \/ /\ s.replies = Expected(r)
                 /\ outstanding' = [outstanding EXCEPT ![r] = FALSE]
                 /\ sum' = [sum EXCEPT ![r] = Fresh(0, 0)]
                 /\ Sends(r, seen, IF r = Top THEN <<>> ELSE <<own>>)
                 /\ printed' = IF r = Top /\ own.valid THEN Append(printed, own) ELSE printed
    /\ UNCHANGED <<loop, objects, unworked, requests, starts, barrier>>

-----------------------------------------------------------------------------
(* The barrier.  What lets a rank start it stays so in cleanup, so that      *)
(* barrier_started says nothing more.                                        *)

MayMeetAlways(r) == TRUE    \* mutant
MayMeet(r) == ~outstanding[r]

\* CIRCLE_barrier_test; a rank that passes goes on to CIRCLE_reduce_sync.
BarrierTest(r) ==
    /\ loop[r] = "cleanup" /\ MayMeet(r)
    /\ \E heard \in SUBSET {c \in Children(r) : arrived[c]} :
          LET replies == met[r].replies + Cardinality(heard)
              all == replies = Expected(r)
              up == all /\ r # Top /\ ~met[r].up
          IN  /\ Cardinality(heard) <= 1
              /\ arrived' = [p \in Procs |-> (arrived[p] /\ p \notin heard) \/ (p = r /\ up)]
              /\ \/ /\ heard # {} \/ up
                    /\ r = Top => ~all
                    /\ met' = [met EXCEPT ![r] = [replies |-> replies, up |-> all]]
                    /\ UNCHANGED <<loop, sum, released>>
                 \/ /\ all /\ ~up /\ (r = Top \/ released[r])
                    /\ met' = [met EXCEPT ![r] = [replies |-> 0, up |-> FALSE]]
                    /\ released' = [p \in Procs |-> (released[p] /\ p # r) \/ p \in Children(r)]
                    /\ loop' = [loop EXCEPT ![r] = "sync"]
                    /\ sum' = [sum EXCEPT ![r] = Fresh(objects[r], objects[r])]
    /\ UNCHANGED <<objects, unworked, outstanding, requests, sent, starts, printed>>

-----------------------------------------------------------------------------
(* CIRCLE_reduce_sync                                                        *)

\* A message of a child, in whatever order they come; it takes the user's data for
\* granted, and would wait for ever for those of an invalid message.
SyncReceive(r) ==
    /\ loop[r] = "sync"
    /\ \E c \in Children(r) :
          /\ sent[c] # <<>> /\ Head(sent[c]).valid
          /\ sum' = [sum EXCEPT ![r] = With(r, {c})]
          /\ Sends(r, {c}, <<>>)
    /\ UNCHANGED <<loop, objects, unworked, outstanding, requests, starts, printed, barrier>>

SyncSend(r) ==
    /\ loop[r] = "sync" /\ sum[r].replies = Expected(r)
    /\ loop' = [loop EXCEPT ![r] = "done"]
    /\ Sends(r, {}, IF r = Top THEN <<>> ELSE <<sum[r]>>)
    /\ printed' = IF r = Top THEN Append(printed, sum[r]) ELSE printed
    /\ UNCHANGED <<objects, unworked, outstanding, sum, requests, starts, barrier>>

SumNext ==
    \E r \in Procs : \/ Process(r) \/ Leave(r) \/ StartReduce(r) \/ Decline(r) \/ Reduce(r)
                     \/ BarrierTest(r) \/ SyncReceive(r) \/ SyncSend(r)

SumSpec == SumInit /\ [][SumNext]_sumVars

SumEnded == \A r \in Procs : loop[r] = "done"

-----------------------------------------------------------------------------
(* Properties                                                                *)

\* Reductions neither mix nor get lost, though ranks read their counts at different
\* times and leave the work loop in the middle of one: what the root prints never
\* shrinks, counts no object that is not processed and none that the user does not
\* know of, and ends with all objects; and a rank that is done leaves no message of
\* a reduction to the next invocation on the communicator.
Reduced ==
    /\ \A i \in DOMAIN printed :
          /\ printed[i].user <= printed[i].total /\ printed[i].total <= Objects - unworked
          /\ \A j \in 1 .. i : /\ printed[j].total <= printed[i].total
                               /\ printed[j].user <= printed[i].user
    /\ \A r \in Procs : loop[r] = "done" => requests[r] = 0 /\ \A c \in Children(r) : sent[c] = <<>>
    /\ loop[Top] = "done" =>
          LET last == printed[Len(printed)]
          IN  last.total = Objects /\ last.user = Objects
=============================================================================
