------------------------------- MODULE Remap -------------------------------
(* mfu_flist_remap: every item of a distributed list is sent to the rank    *)
(* that a map function names.  An all-to-all tells each rank how many items  *)
(* to expect of each other; then, in step i of a ring, a rank sends to the   *)
(* rank i above and receives from the rank i below, a buffer at a time, with *)
(* a synchronous send and a receive of which it awaits both.                 *)
(*                                                                           *)
(* The module has the variables and the actions of a remap; modules that     *)
(* call it extend it.  A collective operation completes in one action, when  *)
(* all ranks have called it.                                                 *)
EXTENDS Integers, Sequences, FiniteSets, SequencesExt, Blocks

CONSTANTS
    N,          \* number of ranks
    MaxCount    \* items that fit into the 16 MB buffer

ASSUME RemapAssumption == N \in Nat \ {0} /\ MaxCount \in Nat \ {0}

Ranks == 0 .. N - 1

VARIABLES
    pc,         \* where each rank is
    list,       \* its items, each with the rank it is mapped to
    newlist,    \* the items it has received
    expected,   \* recvcounts
    step,       \* i of the ring
    next,       \* idx, the first item not yet looked at for this destination
    received,   \* recv_count
    sending,    \* the buffer of the send not yet matched, or << >>
    receiving,  \* the size of the receive not yet matched, or 0
    recvbuf     \* what was received and not unpacked

remapvars == <<list, newlist, expected, step, next, received, sending, receiving, recvbuf>>

RemapInit ==
    /\ list = [r \in Ranks |-> <<>>] /\ newlist = [r \in Ranks |-> <<>>]
    /\ expected = [r \in Ranks |-> [s \in Ranks |-> 0]]
    /\ step = [r \in Ranks |-> 0] /\ next = [r \in Ranks |-> 1]
    /\ received = [r \in Ranks |-> 0]
    /\ sending = [r \in Ranks |-> <<>>] /\ receiving = [r \in Ranks |-> 0]
    /\ recvbuf = [r \in Ranks |-> <<>>]

Src(r) == IF r < step[r] THEN r - step[r] + N ELSE r - step[r]
Dst(r) == IF r + step[r] >= N THEN r + step[r] - N ELSE r + step[r]

\* The positions in s's list of the items that r is to get.
MappedTo(s, r) == {i \in DOMAIN list[s] : list[s][i].rank = r}

\* All ranks have called MPI_Alltoall with their counts.
Alltoall ==
    /\ \A r \in Ranks : pc[r] = "alltoall"
    /\ expected' = [r \in Ranks |-> [s \in Ranks |-> Cardinality(MappedTo(s, r))]]
    /\ newlist' = [r \in Ranks |-> <<>>]
    /\ step' = [r \in Ranks |-> 0] /\ next' = [r \in Ranks |-> 1]
    /\ received' = [r \in Ranks |-> 0]
    /\ pc' = [r \in Ranks |-> "ring"]
    /\ UNCHANGED <<list, sending, receiving, recvbuf>>

\* The k-th of a set of positions, and what a sequence has at them.
Nth(I, k) == CHOOSE i \in I : Cardinality({j \in I : j < i}) = k - 1
Chosen(s, I) == [k \in 1 .. Cardinality(I) |-> s[Nth(I, k)]]

\* The positions of the items for a destination that are still to be sent, and those
\* of them that go into the buffer.
Outgoing(r) == {i \in MappedTo(r, Dst(r)) : next[r] <= i}
Firsts(S) == {i \in S : Cardinality({j \in S : j < i}) < MaxCount}
PackedUnfiltered(r) == SubSeq(list[r], next[r], next[r] + Cardinality(Firsts(Outgoing(r))) - 1)  \* mutant
Packed(r) == Chosen(list[r], Firsts(Outgoing(r)))
\* How far packing looked: to the last item packed if the buffer is full.
Looked(r) == LET I == Firsts(Outgoing(r))
             IN  IF Cardinality(I) = MaxCount
                 THEN CHOOSE i \in I : \A j \in I : j <= i
                 ELSE Len(list[r])

Incoming(r) == expected[r][Src(r)] - received[r]
ToReceive(r) == IF Incoming(r) > MaxCount THEN MaxCount ELSE Incoming(r)

\* MPI_Irecv and MPI_Issend, each if something is left for it.
Post(r) ==
    /\ pc[r] = "ring"
    /\ Incoming(r) > 0 \/ Outgoing(r) # {}
    /\ receiving' = [receiving EXCEPT ![r] = ToReceive(r)]
    /\ sending' = [sending EXCEPT ![r] = Packed(r)]
    /\ next' = [next EXCEPT ![r] = IF Outgoing(r) = {} THEN @ ELSE Looked(r) + 1]
    /\ pc' = [pc EXCEPT ![r] = "waitall"]
    /\ UNCHANGED <<list, newlist, expected, step, received, recvbuf>>

\* MPI matches a send with the receive its destination has posted for it.
Match(s) ==
    LET d == Dst(s)
    IN  /\ pc[s] = "waitall" /\ sending[s] # <<>>
        /\ pc[d] = "waitall" /\ Src(d) = s /\ receiving[d] > 0
        /\ recvbuf' = [recvbuf EXCEPT ![d] = sending[s]]
        /\ sending' = [sending EXCEPT ![s] = <<>>]
        /\ receiving' = [receiving EXCEPT ![d] = 0]
        /\ UNCHANGED <<pc, list, newlist, expected, step, next, received>>

\* MPI_Waitall returns, and what was received is unpacked.
Unpack(r) ==
    /\ pc[r] = "waitall" /\ sending[r] = <<>> /\ receiving[r] = 0
    /\ newlist' = [newlist EXCEPT ![r] = @ \o recvbuf[r]]
    /\ received' = [received EXCEPT ![r] = @ + Len(recvbuf[r])]
    /\ recvbuf' = [recvbuf EXCEPT ![r] = <<>>]
    /\ pc' = [pc EXCEPT ![r] = "ring"]
    /\ UNCHANGED <<list, expected, step, next, sending, receiving>>

\* Where the search for a destination's items starts.
StartKept(r) == next[r]    \* mutant
StartOver(r) == 1
NextStep(r) ==
    /\ pc[r] = "ring"
    /\ Incoming(r) = 0 /\ Outgoing(r) = {}
    /\ step' = [step EXCEPT ![r] = @ + 1]
    /\ next' = [next EXCEPT ![r] = StartOver(r)]
    /\ received' = [received EXCEPT ![r] = 0]
    /\ pc' = [pc EXCEPT ![r] = IF step[r] + 1 = N THEN "summarize" ELSE @]
    /\ UNCHANGED <<list, newlist, expected, sending, receiving, recvbuf>>

\* The summary of the new list takes a reduction over all ranks.
Summarize ==
    /\ \A r \in Ranks : pc[r] = "summarize"
    /\ pc' = [r \in Ranks |-> "remapped"]
    /\ UNCHANGED remapvars

RemapStep == \/ Alltoall \/ Summarize
             \/ \E r \in Ranks : Post(r) \/ Match(r) \/ Unpack(r) \/ NextStep(r)

-----------------------------------------------------------------------------
\* A message is as long as the receive it meets expects: MPI would fail if it were
\* longer, and the unpacking would read what is not there if it were shorter.
FullMessages ==
    \A s \in Ranks : LET d == Dst(s) IN
        pc[s] = "waitall" /\ sending[s] # <<>> /\ pc[d] = "waitall" /\ Src(d) = s /\ receiving[d] > 0
            => Len(sending[s]) = receiving[d]

\* And when a rank has gone around the ring it holds the items mapped to it, each once.
Remapped ==
    /\ FullMessages
    /\ \A r \in Ranks : pc[r] = "summarize" =>
          /\ ToSet(newlist[r]) = UNION {{list[s][i] : i \in MappedTo(s, r)} : s \in Ranks}
          /\ IsInjective(newlist[r])
=============================================================================
