------------------------------- MODULE Unlink -------------------------------
(* mfu_flist_unlink: all ranks remove the items of a distributed list.       *)
(* First go the items that are no directories, then the directories, level   *)
(* by level from the deepest.  Each of these sublists is a stage here; the   *)
(* environment variable MFU_FLIST_UNLINK says how a stage is shared:         *)
(*   DIRECT     each rank removes the items of its own part of the list      *)
(*   SPREAD     the items are first remapped evenly (the default)            *)
(*   MAP        they are first remapped by a hash of their directory         *)
(*   LIBCIRCLE  the ranks share them through libcircle                       *)
(* SORT is SPREAD with another exchange after it, and is left out.  With     *)
(* traceless the times of the directories that items are removed from are    *)
(* read before and set again after.                                          *)
(*                                                                           *)
(* What libcircle does for a stage is taken from WorkPool, which Circle      *)
(* implements.  Removals fail only for directories that are not empty.       *)
EXTENDS Remap

CONSTANTS
    Items, Dirs,     \* all items below the top, and those that are directories
    Top,             \* the directory everything is in
    ParentOf,        \* the directory of an item
    DepthOf,         \* the depth of an item's path
    Parts,           \* the parts of the list each rank may hold
    Hashes,          \* what the hash of a directory may be
    Algos            \* the values of MFU_FLIST_UNLINK

ASSUME UnlinkAssumption ==
    /\ Dirs \subseteq Items /\ Top \notin Items
    /\ ParentOf \in [Items -> Dirs \cup {Top}]
    /\ DepthOf \in [Items \cup {Top} -> Nat]
    /\ \A i \in Items : DepthOf[i] = DepthOf[ParentOf[i]] + 1
    /\ Parts \subseteq [Ranks -> Seq(Items)]
    /\ \A p \in Parts : \A r, s \in Ranks : \A m \in DOMAIN p[r], n \in DOMAIN p[s] :
          p[r][m] = p[s][n] => r = s /\ m = n     \* an item is listed once
    /\ Hashes \subseteq [Dirs \cup {Top} -> Ranks]
    /\ Algos \subseteq {"DIRECT", "SPREAD", "MAP", "LIBCIRCLE"}

VARIABLES
    part,        \* flist: each rank's part of the list
    opts,        \* the algorithm, traceless, and the hash
    stage,       \* the sublist each rank is working on
    todo,        \* what it has to remove of it
    pool,        \* what libcircle holds
    saved,       \* pstatlist: the times read by each rank
    present,     \* the items that exist
    mtime        \* time of each directory: "old", or "new" if changed since the start

unlinkvars == <<part, opts, stage, todo, pool, saved, present, mtime>>
vars == <<pc, remapvars, unlinkvars>>

Listed == UNION {ToSet(part[r]) : r \in Ranks}

\* Directories are taken level by level, from the deepest that the list has.
Depths == {DepthOf[i] : i \in Listed \cap Dirs}
Lowest == CHOOSE d \in Depths : \A e \in Depths : e <= d
Highest == CHOOSE d \in Depths : \A e \in Depths : d <= e
Levels == IF Depths = {} THEN 0 ELSE Lowest - Highest + 1
StageTooEarly(i) == IF i \in Dirs THEN Lowest - DepthOf[i] ELSE 0    \* mutant
StageOf(i) == IF i \in Dirs THEN Lowest - DepthOf[i] + 1 ELSE 0
InStage(r, k) == Chosen(part[r], {n \in DOMAIN part[r] : StageOf(part[r][n]) = k})

Init ==
    /\ RemapInit
    /\ part \in Parts
    /\ opts \in [algo : Algos, traceless : BOOLEAN, hash : Hashes]
    /\ pc = [r \in Ranks |-> IF opts.traceless THEN "stat" ELSE "start"]
    /\ stage = [r \in Ranks |-> 0]
    /\ todo = [r \in Ranks |-> <<>>] /\ pool = {}
    /\ saved = [r \in Ranks |-> {}]
    /\ present = Items
    /\ mtime = [d \in Dirs \cup {Top} |-> "old"]

\* Every directory that an item of the list is in is read by one rank.
ToStat(r) == {d \in {ParentOf[i] : i \in ToSet(part[r])} :
                \A s \in 0 .. r - 1 : \A i \in ToSet(part[s]) : ParentOf[i] # d}
Stat(r) ==
    /\ pc[r] = "stat"
    /\ saved' = [saved EXCEPT ![r] = {[item |-> d, time |-> mtime[d]] : d \in ToStat(r)}]
    /\ pc' = [pc EXCEPT ![r] = "stated"]
    /\ UNCHANGED <<remapvars, part, opts, stage, todo, pool, present, mtime>>
SomeStated == \E r \in Ranks : pc[r] = "stated"     \* mutant
AllStated == \A r \in Ranks : pc[r] = "stated"
StatBarrier ==
    /\ AllStated
    /\ pc' = [r \in Ranks |-> IF pc[r] = "stated" THEN "start" ELSE pc[r]]
    /\ UNCHANGED <<remapvars, unlinkvars>>

\* The list of a remap.  map_spread numbers the items of all ranks: those of lower
\* ranks, of which each has sizes[s], come before a rank's own.
Before(sizes, r) == Cardinality(UNION {{s} \X (1 .. sizes[s]) : s \in 0 .. r - 1})
SpreadTo(sizes, r, n) == MapSpread(Before(sizes, r) + n - 1, Before(sizes, N), N)
SpreadList(r, k) ==
    [n \in 1 .. Len(InStage(r, k)) |->
        [item |-> InStage(r, k)[n], rank |-> SpreadTo([s \in Ranks |-> Len(InStage(s, k))], r, n),
         time |-> "none"]]
HashList(r, k) ==
    [n \in 1 .. Len(InStage(r, k)) |->
        [item |-> InStage(r, k)[n], rank |-> opts.hash[ParentOf[InStage(r, k)[n]]],
         time |-> "none"]]

\* remove_by_algo, up to the removal itself.
StartStage(r) ==
    /\ pc[r] = "start"
    /\ CASE opts.algo = "DIRECT" ->
              /\ todo' = [todo EXCEPT ![r] = SpreadList(r, stage[r])]
              /\ pc' = [pc EXCEPT ![r] = "remove"]
              /\ UNCHANGED <<list, pool>>
         [] opts.algo \in {"SPREAD", "MAP"} ->
              /\ list' = [list EXCEPT ![r] = IF opts.algo = "MAP" THEN HashList(r, stage[r])
                                             ELSE SpreadList(r, stage[r])]
              /\ pc' = [pc EXCEPT ![r] = "alltoall"]
              /\ UNCHANGED <<todo, pool>>
         [] opts.algo = "LIBCIRCLE" ->
              /\ pool' = pool \cup ToSet(InStage(r, stage[r]))
              /\ pc' = [pc EXCEPT ![r] = "circle"]
              /\ UNCHANGED <<list, todo>>
    /\ UNCHANGED <<newlist, expected, step, next, received, sending, receiving, recvbuf,
                   part, opts, stage, saved, present, mtime>>

\* The remap is done: the items received are removed, or the times received set.
EndRemap(r) ==
    /\ pc[r] = "remapped"
    /\ todo' = [todo EXCEPT ![r] = newlist[r]]
    /\ pc' = [pc EXCEPT ![r] = IF stage[r] > Levels THEN "restore" ELSE "remove"]
    /\ UNCHANGED <<remapvars, part, opts, stage, pool, saved, present, mtime>>

\* remove_type: a directory that is not empty stays, which is logged.
Removable(i) == i \in present /\ \A j \in present : ParentOf[j] # i
RemoveType(i) ==
    IF Removable(i)
    THEN /\ present' = present \ {i}
         /\ mtime' = [mtime EXCEPT ![ParentOf[i]] = "new"]
    ELSE UNCHANGED <<present, mtime>>
RemoveNext(r) ==
    /\ pc[r] = "remove" /\ todo[r] # <<>>
    /\ RemoveType(Head(todo[r]).item)
    /\ todo' = [todo EXCEPT ![r] = Tail(@)]
    /\ UNCHANGED <<pc, remapvars, part, opts, stage, pool, saved>>

\* The next stage, or the list of times; the restore spreads these as SPREAD does.
NextStage(r, k) ==
    /\ stage' = [stage EXCEPT ![r] = k]
    /\ pc' = [pc EXCEPT ![r] = IF k <= Levels THEN "start"
                               ELSE IF opts.traceless THEN "spread" ELSE "finish"]

\* There is no barrier after the items that are no directories.
EndFirstStage(r) ==
    /\ pc[r] = "remove" /\ todo[r] = <<>> /\ stage[r] = 0
    /\ NextStage(r, 1)
    /\ UNCHANGED <<remapvars, part, opts, todo, pool, saved, present, mtime>>
EndLevel(r) ==
    /\ pc[r] = "remove" /\ todo[r] = <<>> /\ stage[r] > 0
    /\ pc' = [pc EXCEPT ![r] = "barrier"]
    /\ UNCHANGED <<remapvars, unlinkvars>>
LevelBarrier ==
    /\ \A r \in Ranks : pc[r] = "barrier"
    /\ stage' = [r \in Ranks |-> stage[r] + 1]
    /\ pc' = [r \in Ranks |-> IF stage[r] + 1 <= Levels THEN "start"
                              ELSE IF opts.traceless THEN "spread" ELSE "finish"]
    /\ UNCHANGED <<remapvars, part, opts, todo, pool, saved, present, mtime>>

\* libcircle hands every item to one rank, and CIRCLE_begin returns on any rank only
\* when all have been processed, so after all ranks have called it.
CircleProcess(r) ==
    /\ pc[r] = "circle"
    /\ \E i \in pool : RemoveType(i) /\ pool' = pool \ {i}
    /\ UNCHANGED <<pc, remapvars, part, opts, stage, todo, saved>>
CircleReturns ==
    /\ \A r \in Ranks : pc[r] = "circle"
    /\ pool = {}
    /\ pc' = [r \in Ranks |-> "remove"]
    /\ UNCHANGED <<remapvars, unlinkvars>>

\* traceless: the times are spread over the ranks and set where the directory remains.
Times(r) == SetToSeq(saved[r])
TimesList(r) ==
    [n \in 1 .. Len(Times(r)) |->
        [item |-> Times(r)[n].item, rank |-> SpreadTo([s \in Ranks |-> Len(Times(s))], r, n),
         time |-> Times(r)[n].time]]
Spread(r) ==
    /\ pc[r] = "spread"
    /\ list' = [list EXCEPT ![r] = TimesList(r)]
    /\ pc' = [pc EXCEPT ![r] = "alltoall"]
    /\ UNCHANGED <<newlist, expected, step, next, received, sending, receiving, recvbuf,
                   unlinkvars>>
Restore(r) ==
    /\ pc[r] = "restore"
    /\ IF todo[r] = <<>>
         THEN pc' = [pc EXCEPT ![r] = "finish"] /\ UNCHANGED <<todo, mtime>>
         ELSE LET t == Head(todo[r]) IN
              /\ mtime' = IF t.item \in present \cup {Top} THEN [mtime EXCEPT ![t.item] = t.time]
                          ELSE mtime
              /\ todo' = [todo EXCEPT ![r] = Tail(@)]
              /\ UNCHANGED pc
    /\ UNCHANGED <<remapvars, part, opts, stage, pool, saved, present>>

Finish ==
    /\ \A r \in Ranks : pc[r] = "finish"
    /\ pc' = [r \in Ranks |-> "done"]
    /\ UNCHANGED <<remapvars, unlinkvars>>

Done == (\A r \in Ranks : pc[r] = "done") /\ UNCHANGED vars

RankStep(r) == \/ Stat(r) \/ StartStage(r) \/ EndRemap(r) \/ RemoveNext(r) \/ EndFirstStage(r)
               \/ EndLevel(r) \/ CircleProcess(r) \/ Spread(r) \/ Restore(r)
Next == \/ \E r \in Ranks : RankStep(r)
        \/ RemapStep /\ UNCHANGED unlinkvars
        \/ StatBarrier \/ LevelBarrier \/ CircleReturns \/ Finish \/ Done

Spec == Init /\ [][Next]_vars
\* No rank stops, and MPI completes what all have called.
FairSpec == Spec /\ WF_vars(Next)

-----------------------------------------------------------------------------
\* The list is removed, except directories that hold what the list does not have: these
\* are in every set that has the directory of each item not listed and of its own members.
Above(K) == \A i \in (Items \ Listed) \cup K : ParentOf[i] \in K \cup {Top}
Holds(d) == \A K \in SUBSET Dirs : Above(K) => d \in K
AllGone == (\A r \in Ranks : pc[r] = "done") =>
               Listed \cap present = {d \in Listed \cap Dirs : Holds(d)}

\* "if traceless=1, restore timestamps on parent directories after unlinking children"
TimesRestored ==
    opts.traceless /\ (\A r \in Ranks : pc[r] = "done") =>
        \A d \in {ParentOf[i] : i \in Listed} : d \in present \cup {Top} => mtime[d] = "old"

\* The ranks always come to the end together.
Ends == <>(\A r \in Ranks : pc[r] = "done")
=============================================================================
