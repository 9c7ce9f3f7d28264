# dsync in TLA+

A TLA+ development of the parallel file tools in this repository: `dsync` and
`dcmp` (`src/environment/task/src`), the common library of mpifileutils they
are built on, and libcircle, the work-stealing library underneath
(`src/environment/vendor/libcircle`). Below, `dsync.c`, `mfu_*.c`, `worker.c`
and `token.c` name files of those directories.

Every module is checked by TLC on a small instance, under a `.cfg` of its own or
with others under `Library.cfg`; the modules named `...Proofs` hold theorems that TLAPS
checks for every value of the constants. `PROJECT.json` ties every definition to the lines it translates, lists
the hazards of the code and the properties that watch them, and gives for each
property a plausible bug that breaks it.

## 1. The system

`dsync SRC DST` is an MPI job. Every rank executes the same program; nothing
is shared but the two file systems and the messages.

```
dsync.c  main
  ├─ mfu_progress.c              messages about progress, in every long loop
  ├─ mfu_flist_walk.c  x 2       walk source, walk destination
  │    └─ libcircle              ranks steal directories from each other
  ├─ mfu_flist_remap             send both entries of a path to one rank
  ├─ dsync_strmap_compare        which items to copy, to remove, to refresh
  │    ├─ lite comparison        sizes and times
  │    └─ mfu_compare_contents   bytes, chunk by chunk (mfu_flist_chunk.c)
  └─ dsync_sync_files
       ├─ mfu_flist_unlink       files, then directories from the deepest
       │    └─ remap | libcircle
       ├─ mfu_flist_copy         directories, inodes, data, metadata
       │    └─ mfu_copy_files    the chunks of all files, spread evenly
       └─ mfu_flist_file_sync_meta
```

| component | state | operations | hard | correct when |
|---|---|---|---|---|
| dsync (`dsync.c`) | two lists, the sets derived from them, options, a return code | walk, compare, remove, copy, refresh, exit | phases relying on earlier ones; partial failure; a killed run and the next one | a success means the trees agree; nothing else is lost; a dry run writes nothing; failures reach the exit status |
| copy of a list (`mfu_flist_copy.c`) | the list, what exists already | mkdir by level, create, copy data, metadata by level, refresh | order between ranks by barriers only; interrupted copies | copied items are complete, with the source's times |
| sections (`mfu_flist_chunk.c`) | a distributed list of files and sizes | cut and spread, or a flag per file | rounding, empty files, blocks that cross ranks | every unit copied by one rank; every failure at its owner |
| data copy (`mfu_copy_files`) | per rank: section, offset, buffer; the file being written | read, write, sparse, fiemap, truncate | short transfers, O_DIRECT, ranks in one file, a source that is cut | a file is right or is reported |
| removal of a list (`mfu_flist_remove.c`) | levels of the list, saved times | remove by level in five ways, restore times | rmdir racing unlink on another rank | all of the list is gone |
| remap (`mfu_flist.c`) | counts, ring step, two buffers per rank | all-to-all, ring of synchronous sends | mismatched buffers, hanging | each item is at the rank its map names, once |
| libcircle (`worker.c`, `token.c`) | queue, request, unacknowledged work, termination tree, barrier | serve, ask, receive, acknowledge, allreduce, cleanup | distributed termination with messages in flight | no rank leaves while work is left; each item once; nothing left in the network |
| progress (`mfu_progress.c`) | two pending collectives per rank, `keep_going` | start, update, complete | collectives entered from two functions at different times | rounds match, sums are right, all ranks return |
| periodic reductions (`token.c`) | what a rank has counted, whom it still waits for | start, decline, reduce, synchronise | ranks that leave the loop in the middle of one | no rounds mix, the last sum is the total |
| walk (`mfu_flist_walk.c`) | the list so far, the pool of paths | look at a path, list it, enqueue what is in it | a directory that cannot be read; links; removing while walking | every path is listed or accounted for |
| dcmp (`dcmp.c`) | maps of both trees, flags per item, outputs | compare items, then chunks; evaluate expressions; write | precedence of expressions, flags set twice | an output lists what its expression says |
| chmod (`mfu_flist_chmod.c`) | modes, the level under way | change owners and modes by level | a parent changed before its children | the modes asked for, or a counted failure |
| `dsync --link-dest` | three lists, shared inodes | compare twice, divide, copy, link, refresh | writing through a shared inode; the second comparison hides the first | linked where alike; the third tree keeps its data |
| paths (`mfu_path.c`, `mfu_param_path.c`) | lists of components | reduce, relate, map a source name to the destination | roots, trailing slashes, dots | names lead where they should |
| string map (`strmap.c`) | an AVL tree | set, get, unset, merge, visit | rotations, parent links | a map in order |
| list files (`mfu_flist_io.c`) | the file, offsets, buffers per rank | write and read in rounds | lines across buffers and sections; other numbers of ranks | what was written is read |
| I/O wrappers (`mfu_io.c`) | one call and its tries | repeat what fails | a call that took effect and failed | success is true |
| predicates, sorts | | | | as their reference definitions |
| DTCMP, lwgrp | vendored | sort and scan | | used by what they compute |

`PROJECT.json` says for each which modules model it, or why none does.

Interactions. Phases of `dsync` are separated by collectives (barriers, the
allreduce of the return code, the all-to-all inside a remap); inside a phase
the ranks only share the destination. Ranks send each other messages in three
places: libcircle (point-to-point, any time), the remap (a fixed ring) and the
progress messages (nonblocking collectives). Callbacks connect libcircle to
its callers: the process callback takes a work item and may add others.

## 2. The modules

| module | extends | models |
|---|---|---|
| `Dsync` | | a run of dsync, and runs one after the other |
| `Circle` | | libcircle's work loop, termination and cleanup |
| `WorkPool` | | what a caller of libcircle is promised (abstract) |
| `Blocks` | | the even division of things among ranks |
| `Remap` | `Blocks` | `mfu_flist_remap` |
| `Unlink` | `Remap` | `mfu_flist_unlink`, on top of the remap |
| `Chunks` | `Blocks` | the division of files into sections |
| `CopyData` | `Chunks` | `mfu_copy_files` |
| `Progress` | | `mfu_progress.c` |
| `CircleReduce` | | libcircle's periodic and last reductions |
| `Walk` | | `mfu_flist_walk.c`, over a pool as `WorkPool` promises it |
| `LinkDest` | | `dsync --link-dest` |
| `Dcmp` | | `dcmp.c` |
| `Chmod` | | `mfu_flist_chmod.c` |
| `Paths` | | `mfu_path.c`, `mfu_param_path.c` |
| `Strmap`, `StringMap` | | `strmap.c`, and the map it implements (abstract) |
| `FlistIO` | | `mfu_flist_io.c` |
| `Io` | | `mfu_io.c` |
| `MCLibrary` | `Dcmp`, `LinkDest`, `Io`, `Chmod`, `Paths`, `CircleReduce` | these six and instances of `Strmap`, `FlistIO` and `Walk`, one at a time |
| other `MC...` | | instances for TLC |
| `ProgressProofs`, `DsyncProofs`, `BlocksProofs`, `CircleProofs`, `CircleReduceProofs` | each its own | theorems |
| `LibraryProofs` | `Io`, `Dcmp`, `Chmod`, `LinkDest`, `Paths`, `BlocksProofs` | theorems about `Io`, `Dcmp`, `Chmod`, `LinkDest` and `Paths` |
| `UnlinkProofs` | `Unlink`, `BlocksProofs` | theorems about `Unlink` and `Remap` |
| `CopyDataProofs` | `CopyData`, `BlocksProofs` | theorems about `CopyData` and `Chunks` |

How they compose: `Unlink` and `CopyData` show in detail, rank by rank, two
phases that `Dsync` takes item by item. `Unlink` treats libcircle as a pool of
items, which is `WorkPool`, and `Circle` is shown to implement `WorkPool`.
`Chunks` and `Remap` share the arithmetic of `Blocks`. `Io` shows what `CopyData`
and `Unlink` take a system call to do: a transfer may be short, an error means
that five tries failed. `Strmap` implements `StringMap`, the function that
`Dsync`, `Dcmp` and `LinkDest` take a map to be. `CircleReduce` starts from what
`Circle` shows: a rank leaves the loop when all work is done. The tools of the
library share no state at run time; `MCLibrary` has each of them, as an instance or,
where theorems speak of the very properties it checks, by extension, and a
variable `subject` that says which of them a behaviour is about, while the
variables of the others stand still.

**Dsync.** Variables are the two trees, the lists that the code keeps
(`src_list`, `dst_list`, `src_cp_list`, `dst_remove_list`,
`src_compare_list`, `metadata_refresh`), the phase, what remains of it
(`todo`), `rc` and the exit status. An item is its type, size, bytes, time
(seconds and nanoseconds) and permissions. One action is what one rank does to
one item (`Unlink`, `MakeDirectory`, `CreateItem`, `CopyData`, `SetMetadata`,
`RefreshMetadata`, `CompareData`); items of a phase are taken in any order,
as ranks do; where the code works level by level, the guard `Deepest` or
`Shallowest` stands for the barrier between levels. `Barrier` goes on to the next
phase when nothing remains of one, on all ranks, and `NextBatch` is the loop of
`mfu_flist_copy`: all items of the list at once, or with `--batch-files` so many at
a time (`left` and `batch`; which ones come first is up to how the list is spread),
the directories among them left out until the phase `meta_dirs` after the last
batch. Failures are of ten kinds,
each at the call that can meet it. `Crash` ends the job at any step, with a
file torn if one was being written. The file system follows the system calls:
`rmdir` fails on a directory with entries, `open` follows links, a change of
entries sets the directory's time, and with `Coarse` only whole seconds are
stored. The assumption `FileSystemAssumption` says what a file system is: items lie
in directories, the times of the destination are such as it stores, and no file of
the source is dated like the changes that dsync itself makes.

**Circle.** One action per call of the loops of `CIRCLE_work_loop`:
`Process` (the callback), `Serve` (`CIRCLE_workreq_check`), `TakeReceipt`
(`CIRCLE_workreceipt_check`), `Ask` and `Receive` (`CIRCLE_request_work`),
`CheckForTerm` (`CIRCLE_check_for_term_allreduce`, in four disjuncts: it
waits, contributes, completes at the root, completes elsewhere),
`BarrierTest`. Variables are the fields of `CIRCLE_state_st` plus one variable
for the messages of each tag. Two variables are history: what was created and
processed, and `turn`, which flips when a rank contributes to an allreduce and
so tells on which side of the wave it is.

**Remap, Unlink.** `pc` says at which call each rank is. `Alltoall`,
`Summarize` and the barriers are taken when all ranks are at the call. `Post`
is the pair of `MPI_Irecv` and `MPI_Issend`, `Match` the transfer, `Unpack`
the return of `MPI_Waitall`. `Unlink` chooses among the ways to share the work
(`DIRECT`, `SPREAD`, `MAP`, `LIBCIRCLE`); `SORT` is left out, being a sort
followed by what `SPREAD` does.

**Chunks, CopyData.** A file is a sequence of units; `ChunkList` gives each
rank its sections. `Read`, `Write` and `Fiemap` are one system call each, which
may be short; `Shrink` cuts a source file at any time. That a file's last
section sets its size, and that O_DIRECT writes whole buffers, is where ranks
could disturb each other.

**Progress.** The k-th collective of a rank matches the k-th of the others;
`bcasts` and `contribs` hold what has been sent and not received. The two
functions are the values `update` and `complete` of `pc`.

**CircleReduce.** One action per thing that `CIRCLE_reduce_check` does when it
finds something to do: `StartReduce` (the root's interval is over; a request to
each child), `Reduce` (a request comes, or the children's counts, or both, and
what is due goes up or is printed), `Decline` (a rank in cleanup
answers with an invalid count). `Leave` ends the work loop, `BarrierTest` is the
barrier that a rank enters when its reduction is over, `SyncReceive` and
`SyncSend` are `CIRCLE_reduce_sync`. `sum` is the accumulator a rank shares
between its children's messages.

**Walk.** A path is a sequence of names and a tree a graph of inodes, so that a
link with `--dereference` makes a path longer for each turn it takes; the limits
are `PATH_MAX` and the system's limit of links in a path. `Create` is the create
callback on rank 0, `Process` a step of the process callback, of which a rank
takes several, one per entry of a directory, with other ranks' steps between
them. `Return` ends the callback, at the end of the directory (`CloseDir`) or when
readdir fails for good (`ReaddirFails`), which the code takes for the end; `unread`
remembers, for the property, which entries that loses. The options choose between
the callbacks that stat and those that go by readdir, and between listing and
removing.

**Dcmp.** `Options` turns the command line into outputs, disjunctions of
conjunctions of field and state; `CompareItem` is an iteration of
`dcmp_strmap_compare` and sets the item's flags on both sides, `CompareChunk`
compares a piece of a file, `Gathered` brings the results of the pieces to the
flags, `Write` counts and writes the outputs, `Exit` sets the status.

**Chmod.** `NextLevel` passes the barrier to the level above; `ChangeOwner` and
`ChangeMode` are the two system calls for an item, `ChangeMode` after
`ChangeOwner`, and items of a level interleave. `level` and `waiting` say what
is left; `known` is what the list says of an item, which the walk read and which
may be stale. `Listed`, `Within`, `DepthOf` and `Types` are the list; a mode is the set
of its bits, `AfterPart` is what one part of a symbolic mode makes of it, and
`AfterParts` a recursive function over the parts.

**LinkDest.** A tree is a function from files to inodes, and inodes are shared,
so that a write through one name is seen through another. `Compare` and
`CompareLink` are the two calls that classify every file, `Divide` is
`dsync_generate_real_lists`; `Unlink`, `Copy`, `SetMetadata`, `Hardlink`,
`SetLinkMetadata` and `Refresh` are what a rank does to one file of the phase.
What goes wrong is chosen when it can (`LinkFaults`).

**Paths.** A string is the sequence of what stands between slashes, and a path
its components; the operators are the functions of `mfu_path.c` one by one.
`SetAll`, `Check`, `Relate` and `Place` are what the tools do with their
arguments and then with every item. The loops over components (`Simple`, `Popped`)
are recursive functions, so that theorems can speak of them.

**Strmap.** `nodes[k]` is the record of `strmap_node_new`, with left, right and
parent links and a height; `Set`, `Unset`, `Merge` and `Delete` follow the C code
through insertion, rotation and extraction. The refinement mapping is what
`strmap_foreach` and `strmap_get` return.

**FlistIO.** The file is a function from positions to what starts there.
`OpenToWrite` is what happens before the first collective write (summaries,
offsets), `WriteLines`, `WriteRecords` and `WriteText` a rank's round,
`ReadLines` and `ReadRecords` a round of reading, `Close...` the end. A rank of
the reading job takes the lines that start in its section.

**Io.** One action is one try: `Change` of a call that creates, removes or closes
something and cannot do so twice, `Plain` of a call that may be repeated without
harm, `Transfer` of a read or a write. `Nothing` is the return of a wrapper that
has nothing to move.

## 3. What the runs check

| run | instance | states | properties |
|---|---|---|---|
| `progress` | 3 ranks, 1 unit of work each | 58,551 | the rounds |
| `dsync` | 5 source and 6 destination trees of 4 paths, 14 option settings, 2 runs, killed anywhere | 172,730 | convergence |
| `dsync_faults` | the same trees with whole seconds, failures of two kinds in a run | 730,678 | safety under failure |
| `circle` | 3 ranks in a chain, up to 4 items | 25,932 | termination |
| `unlink` | 3 ranks, 4 divisions of a tree of 3 levels, 2 items per buffer | 13,469 | removal |
| `copydata` | 2 ranks, 2 files, 5 option settings, 2 troubles | 233,813 | data |
| `library` | nine parts, each on an instance of its own | 274,691 | one property per part |
| `dsync_incomplete`, `dsync_repeat`, `dsync_torn`, `dsync_top`, `unlink_direct` | as above | | divergences, section 6 |

*progress.* `KeepGoingInUpdate` is a comment of the code: a rank in
`mfu_progress_update` may post another broadcast because the flag to stop can
only be sent when all are in `mfu_progress_complete`. `OneRound`,
`NothingUnmatched` and `AllReturn` say that the collectives match and end;
`FinalTotals` that the sums printed last are the totals.

*dsync.* `Converged` is the tool's promise, with its limits spelled out: a
success brings each item in line, except that a lite comparison believes equal
size and time, that a link that was a link keeps its old target, and that a link
does not replace a directory with entries unless `--delete` is given. It holds
after killed runs as well, together with `TornNeverLooksDone`: a file that was
being written keeps a time different from the source's. `Converged` says of
`--delete` as well that exactly the source's paths remain. A destination that is no
directory is left out (`TopReplaced`): it is removed for the source's top directory,
which is not made then, and the job exits with 0 all the same, or fails in what is
below it (section 6). `CopiedMetadata` says that nothing which follows in a run
disturbs the times of what it copied: directories get theirs after the last batch.
`RepeatIsQuiet`, of a run after a successful one that left a directory at the top,
and `Ends` complete it.

*dsync_faults.* `KeepsExtraneous`: without `--delete`, what only the destination
has is untouched at every moment, whatever else fails, unless the failure is a
removal or the destination's walk (data may then be written through a link that
stayed; see section 6). `FailureReported`: a failure of a phase that returns a
code makes the exit status 1. `DryRunNonMutating`.

*circle.* `NoWorkLeft` is the property that the comment at `worker.c:255-299`
argues for in English; `CleanExit` the one at `worker.c:302-307`. `Wave` is the
reason: either something spoils the current allreduce or everyone who has
contributed is out of work for good. `Handshake` bounds the array of requestors
and keeps replies apart. `EachItemOnce`, `AllDone`, and the refinement
`ImplementsPool`.

*unlink.* `Remapped` for the exchange, `AllGone` for the removal,
`TimesRestored` for `traceless`, `Ends`.

*copydata.* `CopiedOrReported`: a file is complete, or the rank that has it in
its list learns of the failure, whichever rank's section it was in.
`EachUnitOnce`, `SectionsApart` and `Ends`.

*library.* One property for each part, each a statement about a whole use of it.

- `Balanced`, `ImplementsMap`: the AVL tree stays one after any sets and unsets,
  and implements `StringMap`.
- `ReadBack`: what the ranks of one job write, those of another read, in the same
  order and with the same users, wherever buffers and sections cut the lines.
- `Honest`: what a wrapper reports is so, though a failing call may have taken
  effect before it was repeated (`mkdir` and `EEXIST`, `unlink` and `ENOENT`).
- `Accounted`: each path is listed as often as it lies below an argument, less one
  for each listing that broke off before it, or an error was printed for it or above
  it; exceptions in section 6.
- `Reported`: an output of dcmp lists the items for which its expressions hold,
  the assertions of the code do not fail, and the status is right.
- `Changed`: every item of the process has the mode asked for, told bit by bit, or a
  counted failure, and none fails because its parent was changed first; one exception
  in section 6.
- `Linked`, `LinkDestKept`: a run with `--link-dest` that reports success has
  every file in place, linked where the third tree has it; and the third tree's
  files hold what they held at every moment.
- `Placed`: paths keep their meaning when made absolute and simple, `mfu_path_cmp`
  and `mfu_path_relative` say how two places lie, and an item gets the name that `cp`
  gives it. Not so items that the code takes for those of another argument, and roots
  spelled other than `/` (section 6).
- `Reduced`: sums of the walk's progress never shrink, count nothing that is not
  done, and end with the total; no message is left for the next invocation.
- `Ends`: each part but the map comes to an end.

**Why the bounds are enough.** Three ranks are the least with a rank that has
both a parent and a child in libcircle's tree, with two ranks other than the
root, and with a ring in which source and destination of a rank differ. Four
items and two new ones per item let all ranks hold work while a message carries
some. Four paths hold a file and a directory next to each other and a child of
the directory; the trees cover every type on either side, links into the tree
and out of it, equal size with different bytes, equal seconds with different
nanoseconds. Batches of one and of two items cut the lists of up to four everywhere,
and a batch of one may hold only a directory. Two runs show what one leaves for the next. Two failures of
different kinds meet each other, and `MaxTroubles = 2` does in `CopyData`, where
a source that is cut in the middle of a short read is one of the cases. Buffers
of 2 units in chunks of 2, files of 5 units: three chunks, the last one partial,
on two ranks, so that a rank has a section of two chunks.

In `library`: six keys are the least with a double rotation below the root and a
node with two children to extract, from both sides. Reading buffers of 5 bytes
cut lines of up to that length at every place, a batch of 24 words holds one record or more, and
lists are empty, shorter than the number of ranks, or longer. Five tries are the
code's. The walk's tree has a directory in a directory, a link to the top one or
to nothing, and a file beside; paths of 6 characters let a link be taken twice,
and a link more is `ELOOP`; arguments overlap, or the first is missing. Two ranks
walk. dcmp compares one file in two pieces and one in none; the items are only in
one tree, in both, or differ in each field that has an expression in the six
command lines. Three levels, with a link in the deepest, for modes. Two files,
of which one is in the third tree, in every combination of same, stale and
missing, and one kind of failure at a time, for `--link-dest`. Strings of up to
three components over "", ".", "..", "a" and "ab" for paths ("ab" begins with
"a"), and pairs of sources of which one begins the other, or lies in it. Four ranks, a root with two children of which one has a child, one object
to process and two periodic reductions for `CircleReduce`, so that ranks leave
the loop in the middle of the first or the second.

**Fairness.** `Progress`: a work loop is finite, and a wait returns once all
ranks have joined what it waits for; nothing is assumed of how often update is
called. `Dsync`: some rank takes a step while one is possible (a crash is not
such a step, and need not happen). `Circle`: a rank's loop repeats every call,
and `MPI_Iprobe` sees a message in the end, so a call that can do something is
made: weak fairness of each call, none for `Ask` (asking is not needed to end).
`Unlink`: some rank steps while one can. `CopyData`: the same, and troubles are
bounded, so that no transfer stays short for ever: the code has no bound of its
own on writes of length 0. `MCLibrary`: a part goes on while it can (the code is a
loop that ends, on ranks that MPI keeps running), except the map, which its
callers use for as long as they like. Deadlock is checked in all runs but those of
`Dsync`, `Circle` and `MCLibrary`, which stop when the last run, rank or part is
done.

## 4. What is proved

All theorems hold for every value of the constants that the named assumptions
allow; the modules hold no assumption without a check, and every leaf is
checked.

**`ProgressProofs`** (any number of ranks, any amount of work). `RoundInv`,
the conjunction of `TypeOK`, `Phase` for every rank, `RootPhase` and
`TruthfulFlags`, is inductive: the root's own unreduced contribution says
whether a round is under way, and each other rank is in one of four places of
it. `KeepGoingSafe`, `RoundsDoNotOverlap` and `FreedClean` follow. `TotalsAreFinal`
(`FinalTotals`) needs `LastRoundTrue` besides: in the round announced as the last,
what a rank contributes is flagged complete and is the count it keeps, because no
rank is in its work loop by then. The fold that sums the counts is never unfolded:
what the last round sums is shown to be the very function of the counts.

**`DsyncProofs`** (any trees, options, kinds and numbers of failures, runs and
crashes). `TypeCorrect`, `FailuresAreReported`, `ExtraneousAreKept` and
`DryRunIsSafe`, from an inductive invariant that says what the lists and the
remaining items of every phase may hold. The argument for extraneous items: all
lists hold only items of the source or items that both trees have, a removal
never takes a directory with entries, and a path is written through a link only
if the link was not removed, which without a removal failure cannot be.

**Convergence**, the second part of `DsyncProofs` (the same generality: any trees that are file systems, all
options with batches of any size, any history of runs that failed or were killed).
`RunsConverge`: `Converged` holds for ever. `CopiesKeepTimes`: so does
`CopiedMetadata`. `TornFilesShow`: while no operation has failed, a file that a
killed run left half written does not look done. They follow from `RunsAreInOrder`,
that `IInv /\ RunInv` is inductive. The argument has three layers.

- What an action does to single entries: `UnlinkDoes`, `MakeDoes`, `CreateDoes`,
  `OverwriteDoes`, `CopyDoes` and `SetDoes` say of the item and of all others how
  type, size, bytes, time and permissions may change, and one lemma for each action
  shows it. Everything after uses these and not the definitions of the file system.
- The plan. `FileSystemInv` (every item in a directory) holds at any time, whatever
  fails. When nothing has failed, `SnapInv` says that the lists are the trees, and
  `PlanInv` that what is to be copied, removed, compared and refreshed is what
  `dsync_strmap_compare` found; so every path of the source is either on the list to be
  copied or one of `Kept`, and nothing is both.
- What is done so far. `UnlinkInv`: what is removed is gone, or is a directory that
  keeps an entry which nobody removes (`Stuck`); since levels go from the deepest,
  a child that is to be removed went before. `LateInv`: from then on each item on the
  list is missing until its turn (`Pending`) and in its place after it. `CopiedInv`
  and `MetaInv` say the same of bytes and of times and permissions, batch by batch:
  an item that has its metadata lies in no later batch, and only directories are
  dated by what is made in them. `KeptInv` says that items which stay are right, or
  will be overwritten or refreshed. `TornInv` needs that a write always sets the time.

`PhaseProgress` is the one lemma about barriers and batches: going on makes nothing
pending, copied or dated that was not. Failures are not looked at in this part,
except that they leave a trace in `faults`, so that `Clean` means there was none.

**A repetition**, the last part of `DsyncProofs`. `RepetitionsAreQuiet`:
`RepeatIsQuiet` holds, also when operations of the repetition fail and when it is
killed. Its hypothesis `Dependable` has two halves, and without either it is false.
The kinds of failures that can happen are those `Reported` by the exit status: a run
whose removals, metadata or walks fail and which exits with 0 leaves work for the next
one. And the destination can store the times of the source: on a file system of whole
seconds (`Coarse`) the lite comparison finds each copied file changed, and copies it
again. Run *dsync* is an instance (no failures, crashes, no `Coarse`). `SettledInv`
turns `Converged`, of the run that succeeded, into what the next one will compare;
`QuietInv` follows it: no list of the repetition has an item but links that cannot
replace a directory with entries (`Held`) and, with `--contents`, files whose bytes
are equal (`SameBytes`), so every action keeps each item's `Shape`. `TopInv` says that
a top which was replaced does not come back. `Ends` of `Dsync` is only checked.

**`BlocksProofs`** (any number of items and ranks). The blocks of
`mfu_get_start_count` follow one another, make up everything and differ by at
most one; `map_spread` and `map_chunk_to_rank` name the rank whose block has the
item, also when there are fewer items than ranks and the division by
`items_per_rank` would be by zero; and a later item never goes to an earlier rank
(`SpreadInOrder`).

**`UnlinkProofs`** (any number of ranks, any size of the buffer, any tree, any list
and any parts of it, every way of sharing the work). `ExchangeIsComplete`: `Remapped`
holds, so every message fits its receive and an exchange loses and repeats nothing.
`EverythingGoes`: `AllGone` holds unless the work is shared as `DIRECT` does, for
which `unlink_direct` refutes it. `TimesAreRestored`: `TimesRestored` holds.
`UnlinkAssumption` says that an item is in the list of one rank and there once, that
it lies in a directory or the top, and that a path is one component deeper than its
directory's; a hash may be any. The invariants are layers, each inductive given those
before it.

- `PhaseInv`: where the ranks are. Two ranks are in the same stage, or one still
  removes files while the other waits in the exchange for the deepest directories
  (`Overlap`), because that exchange is the only thing that keeps them apart; from
  there on a level begins when all have ended the one before. Only `DIRECT` breaks
  `TogetherInv`: its stages have no exchange.
- `ExchangeInv` with `RingInv`: for each pair of ranks (`PairInv`) what the sender has
  packed is as many items as the receiver has got and a send has in it, all of them
  the sender's, none twice. `CutInv` says that a receive expects a full buffer or all
  that is left, and that a send has a full buffer or the end of it: the two sides count
  to the same buffers without ever comparing them. `PostKeeps`, `MatchKeeps`,
  `UnpackKeeps` and `NextStepKeeps` carry it through a step, with `PackedNext`, what
  packing takes. Then `MessagesFit` and, after the last step of the ring, `AllArrived`.
- `WorkInv`, `StaysInv` and `GoesInv`: what a rank is to remove is of its stage and
  listed; what is not listed stays, and so do directories that hold such items
  (`Holds`); each other item that is there is owed by some rank (`Pending`). That a
  directory can be removed in its turn needs that every child which is to go went
  before, that is, that children are in an earlier stage, and that no rank is late:
  the former is `StageOf`, the latter `TogetherInv`.
- `TimesInv`: once times are being restored nothing is removed, each time that is
  handed out is the old one, and a directory that something was removed from has its
  old time or is still to get it, which takes `ExchangeIsComplete` again.

**`CircleProofs`** (any tree of ranks, any items, any way of sharing them). The
safety of `Circle` in full: `TypesCorrect`, `HandshakeHolds`, `ItemsKept`,
`WaveHolds`, `NoWorkIsLeft`, `ExitIsClean`, and `LoopImplementsPool`, the safety
part of the refinement. The inductive invariant `IInv` adds to the properties
what makes them hold: `Acked`, a rank counts exactly the work messages on their
way and the receipts for them (so whoever receives work late has a sender that
cannot contribute); `Edges`, which of four states the two ends of each edge of
the tree are in; `Counts`, that `term_replies` counts the children heard in this
wave; `Turns`, that who has contributed waits; and `Over`, that after the result
1 nothing but that result moves. `Wave` is then preserved by every call, and when
the root gets 1 all ranks have contributed, hence all are out of work: this is
the English argument of `worker.c:255-299`. `BarrierInv` carries the argument on
to the exit. What a share contains is left open (`Served`), so the proofs do not
depend on `spread_counts`.

**`CopyDataProofs`** (any number of ranks, any lists, files, sizes of chunks and of
buffers, options and troubles). All safety of `CopyData`: `UnitsShared`
(`EachUnitOnce`), `RanksStayApart` (`SectionsApart`) and `FilesCopiedOrReported`
(`CopiedOrReported`). `ListsAssumption` says that no item is listed twice and that
data are integers; `CopyDataAssumption`, that with O_DIRECT a chunk is whole buffers,
without which `mfu_copy_file_normal` aborts.

- What is handed out. `ChunksInARow`: the chunks of a file that one rank gets follow
  one another, because the spread keeps the order of the items (`SpreadInOrder` of
  `BlocksProofs`). So a section covers exactly its chunks (`SectionOfChunks`), the
  sections of all ranks, one after the other, are in the order of their files
  (`SectionsInOrder`), and each unit and each end of a file is in one of them
  (`UnitsOnce`).
- What is brought back. `LorOfSections`: the segmented scan gives the last section of a
  file the or of the flags of all, because no section of another file lies between
  two of them, and this one section is the one whose result goes to the owner.
- `CopyInv`: with O_DIRECT a rank is at a whole number of buffers from the start of its
  section (`Position`), and a section that does not end with its file is a whole number
  of buffers too (`SectionOK`), so a buffer fits (`NextPosition`, by `NextMultiple`) or
  reaches beyond the end of the file only, where the final truncate takes it away.
  `OneWrite` is the one place where data change.
- `DataInv`, which TLC checked first as an invariant of `copydata`: a unit that its
  rank has passed is right, one to come is still blank if the copy is sparse
  (`UnitOK`), so that skipping a buffer of zeros is as good as writing it; the buffer
  is as the source, and one that is not full reaches the end of the file
  (`BufferInv`); the end of the file stays where its last section has put it
  (`EndInv`). `RankStep` carries it through a step of one rank: `SectionNow` is about
  the section it is at, `OthersKept` about all others, which have no unit in common
  with it (`OneEach`). `QuietStep` is for steps that copy nothing. At the report
  every section is over (`ReportInv`), hence every file without a failed section is
  its source (`FileCopied`).

**`LibraryProofs`**, the I/O wrappers (any limit on tries, any amount).
`WrappersAreHonest`: `Honest` holds, by `EffectInv` (an error that callers take for
success comes only from an effect that is there, and no call takes one back) and
`DataInv`.

**`LibraryProofs`**, dcmp (any two trees, any outputs, chunks of any size, any order).
`OutputsAreReported`: `Reported` holds. dcmp compares each field once for all outputs,
reads files in chunks that may be on any rank, and writes each output afterwards from
the maps alone; `Reported` says of every output, as if it were the only one, that it
has the items of which its expressions are true in the trees. The invariant
`DcmpInv` has a part for each stage of this, and TLC checked it before it was proved.

- `OptionsInv`: after the options are parsed, `compared` has the fields of all outputs
  with all that they depend on (`OutputsAreLegal`, `ComparedFields`): who asks for
  contents also gets sizes. That is what the assertions of `dcmp_expression_match` need.
- `ItemsInv`: the maps hold, field by field, what `Found` says of the trees, for items
  of both sides and of one only; the files to be read are those whose contents
  metadata could not tell.
- `FlagsInv`: every chunk that has been compared has the flag its data or a failure
  gives it. The chunks are those of the source's file; as a file is only read when
  the sizes agree (`ReadSizes`), they make up the destination's too, and a file without
  a flagged chunk is its counterpart (`SameData`, by `UnitInChunk`). `FlagsSay` is the
  or over the chunks.
- `ReportsInv`: what has been written is what was to be. `FieldSays` and `MatchesSays`
  take an expression from the maps back to the trees; `MatchingSays` and `OutputSays`
  do it for conjunctions and outputs, the counts included, for which the
  first conjunction of several is chosen as the smallest number (`LeastNumber` of
  `BlocksProofs`).

The proof needed two more facts than the statement had. The counts were only checked to
add up; now each of them is stated. And the assertion at `dcmp.c:1172`, which `--debug`
makes, fails when nothing at all is compared, which outputs without an expression
(`-o ,` or `-o @`) bring about; `Reported` names that exception, and `library` has such
a command line.

**`LibraryProofs`**, `--link-dest` (any files, inodes, options, and failures of any kinds).
`ThirdTreeKept`: `LinkDestKept` holds. `NamesInv` follows what is to be copied
through the two comparisons and the division: it has no name at the destination, or
one that waits to be removed; when the removal is over it has none, so the copy
makes a new inode. `SuccessIsLinked`: `Linked` holds of every run that reports
success, by `SuccessInv`, which follows each file through the lists of the two
comparisons, the division, the removal, the copy and the links. The index that the
division leaves unset may remove any file of the destination, yet such a run cannot
report success: the file it was to replace is then in the list of links twice, and the
second link fails. `Linked` has one exception, which the proof turned up: if a
removal fails and two names of the destination are one inode, or one is that of another
file in the third tree (`InodesApart`), the copy in place of the first writes the second;
one scene of the run `library` has such names. The hypothesis `ScenesAssumption`
says that names lead to inodes that exist and that new inodes are nobody's yet.

**`LibraryProofs`**, chmod (any items, modes and owners, any octal or symbolic mode).
`ModesAreChanged`: `Changed` holds. It has two halves.

- What is set. The code folds the parts of a symbolic mode over whole modes, user
  first, so that `X` for the group sees the user's new bit; `ModeWanted` says of each
  bit when it is on. `PartSays` shows the two equal for one part (`TurnSays`,
  `ClassSays` for a class of letters), `WantedIsMade` for any number. Both are
  recursive functions; `ChainExists` and `ChainIsOne` show such a function to exist and
  to be the only one, from a least counterexample (`Smaller` of `BlocksProofs`), which
  stands in for induction.
- Where it is set. `LevelsInv`: what is still to come has the mode the walk left, as
  levels go from the deepest; so whatever was open at first still is, and a change fails
  for no directory changed before (`OpenAbove`). `FailuresInv`: the items done so far
  that are wrong are no more than the failures counted, so each has its own. The last
  level leaves nothing to come.

The proof did not go through for the property as it first stood, which allowed no
exception: an item skipped for its listed mode (`SkippedIsRight`) need not have it.
TLC then found such an argument; section 6 has it.

**`LibraryProofs`**, paths (any arguments, any directory to run in, any names below).
`PathsAreKept`: `Placed` holds. Where a string leads (`From`) is defined without the
code's functions, by entering one component after the other; a place is the list of
names that this ends with.

- Made absolute and simple. `ReducedIs`: what `mfu_path_reduce` leaves is the root
  followed by the place that the string leads to. It drops components first and pops
  ".." afterwards, in a second pass; the invariant over the components is that what is
  popped so far of what is kept so far is the place reached so far (`PopEnters`).
  So two strings of one place become the same (`StringIs`), whatever their length.
- How places lie. `SharedIs` gives the components in common; `CmpIs` and `RelativeIs`
  follow, the latter going up to what is shared and then down (`FromUp`, `FromNames`).
- Names at the destination. `CutIs` is the arithmetic of `mfu_param_path_copy_dest`:
  what is left of a name when as many components are cut as the source has, or one
  fewer, also when nothing is left and the slice's offset wraps around to 0, and when
  the source is the root. `CopyDestIs` adds the search for the source: the first string
  that begins the name need not be the item's own, but it cuts as much (`ToldApart`).

Without `ToldApart` the last part is false, as a run of TLC with two nested sources
shows; `PathsInv` carries the rest from one step of the command to the next.

**`CircleReduceProofs`** (any tree of ranks, any number of objects and of reductions).
`ReductionsNeverMix`: `Reduced` holds. In the code nothing numbers a reduction: a
count that comes up is taken for an answer to whatever the rank is summing, and
leaving the loop, the barrier and the last reduction go on beside it. The proof says
why no answer can be to another question. Each layer of `ReduceInv` was first
checked by TLC as an invariant, on trees of three and four ranks.

- `BarrierInv`: a rank that has gone up to the barrier takes part in no reduction, and
  its children have all come before it; a rank is past the barrier only if its parent is.
- `EdgesInv`: between a rank and its parent there is at most one message on its way, a
  request or an answer, of the reduction the parent is in or of the last one, never of
  both (`Edge`); the answers a rank has counted are the children it has heard (`Counted`).
- `RoundInv`: there are ranks `g` that have answered the root's present question, and
  counts `n` and `u` that these have read, `u` at the start of a rank's part and `n` at
  its end, such that what is held and on its way sums up to them (`Round`). A reduction
  that somebody has declined is worthless as a whole, and so it is not printed.
- `LastInv`: in the last reduction what is held and on its way, together with the objects
  of the ranks still to send, is all that has been processed, which by then is all objects.
- `PrintedInv`: the sum of the present round is never below what was printed, as each of
  its counts was read after the last one.

`FromTop` is induction along the tree, from the assumption that every rank descends from
the root. A sum is the size of a union of sets (`SumOver`), for which the theorems on
finite sets serve; a fold would need an induction that the provers cannot do.

The theorems of these two modules assume `IoAssumption`, `DcmpAssumption` (chunks are
not empty, a file has as many units as its size says, outputs are sequences of
sequences of pairs), `ModesAssumption` (a directory is above what it has, and "=" has a
source), `ScenesAssumption`, `PathsAssumption` (strings have components, and the
directory a command runs in is absolute) and `TreeAssumption` by name;
`LibraryAssumption` has TLC evaluate all six.

Type correctness is proved for `Progress`, `Dsync` and `Circle`, and is no
property of a run of theirs; the mutants of their runs change what the code does.
Left to TLC are liveness, and what rests on recursion over data: `Balanced` and
`ImplementsMap` (a balanced tree), `ReadBack` (offsets and lines of a list file) and
`Accounted` (paths that links make longer).

## 5. Not modelled

- Formatted output, and the parsing of options other than dcmp's expressions.
- Extended attributes and ACLs: they follow the path of permissions. Owners and
  groups, in `Dsync`; `Chmod` and `Dcmp` have them.
- The getdents callbacks of the walk, which the code does not install, and
  `mfu_flist_stat`, which no tool here calls.
- `CIRCLE_abort`, the token ring, checkpoints: no tool of this tree uses them. The
  queue's packing of strings is left out; its work is a bag.
- The DAOS back end. Without it a read or write that fails five times ends the
  job (`mfu_io.c`), which is `Crash`; the error branches of
  `mfu_copy_file_normal` for reads and writes are dead then.
- Packed formats of items, sorts, segmented scans: used by what they compute.
  DTCMP and lwgrp, which do them, are vendored.
- Predicates (`mfu_pred.c`): comparisons of one item's fields with constants.
- Hangs of blocking sends: `Circle` takes MPI to buffer messages
  (`token.c:1313`, a hazard without a property). Ranks that take different
  branches at `dsync.c:3294`: the model has one answer for all.

Abstractions worth knowing: groups go as users in `FlistIO`, names with `|` or a
newline, which its lines do not protect, are left out, and so are byte order and
the width of columns; `Chmod` starts from a mode string that is parsed, and its
modes have no set-ID bits; what a file system knows of an argument is an input of
`Paths`; `LinkDest` has regular files only.

## 6. Where the code and its documents differ

With a run each:

| run | what |
|---|---|
| `dsync_incomplete` | a source directory that cannot be read makes `--delete` remove what the source still has |
| `dsync_repeat` | a second run changes times: directories in which an item was replaced, and files overwritten by `--contents`, are left with the current time by the first |
| `dsync_torn` | a file whose copy failed is kept, and gets the source's time, so that the next lite comparison takes it for done |
| `dsync_top` | a destination that is a file is removed for a source directory, and no directory takes its place |
| `unlink_direct` | `MFU_FLIST_UNLINK=DIRECT` removes directories while other ranks still empty them |

`src/instruction.md` describes further ones. The model has the code's behaviour
for those it covers, and the properties leave them out by name:

- Links that are links on both sides count as equal, whatever their targets
  (`dsync.c:1749`); `Converged` excludes them.
- Nanoseconds are compared even if one side does not store them; such files are
  copied in every run (`Coarse`, in `dsync_faults`).
- A destination parent that cannot be written ends the run with status 0
  (`dsync.c:3294`); `Clean` requires a writable parent. The test is made by each
  rank for itself; ranks that see different answers would part ways.
- A destination walk that fails is not noticed (fault `walk_dst`).
- `-L` falls through into `-P` (`dsync.c:3112-3117`), and single-file
  destinations: not modelled in `Dsync`; `Paths` has the check of arguments.

Met while reading, and not in the documents: a link cannot replace a directory
with entries, silently (`mfu_flist_copy.c:1180`, `Blocked`); an item that could
not be removed is taken for an old copy of the new one, and data go through it if
it is a link (the failed removals that `KeepsExtraneous` names); the result of
setting metadata is dropped in `mfu_flist_copy` (`SetMetadata` cannot fail the
run); a `--link-dest` comparison overwrites the result of the earlier one
(`dsync.c:1845`); a fiemap copy of a source that is cut ends in zeros and is
reported as good (`mfu_flist_copy.c:1998`, excluded in `CopiedOrReported`) and
adds section ends to the total size (`mfu_flist_copy.c:2044`); `errno` is compared
with `-ENOENT` (`mfu_flist_copy.c:1281`).

In the parts of `library`; a property leaves each of them out by name, or its
bounds do:

- Walk. `build_path` lets a path of exactly the limit pass, cut by one
  character, so that a directory there yields itself for ever
  (`mfu_flist_walk.c:117`; no path of the instance has that length). An item that
  a removing walk cannot remove is neither listed nor logged
  (`mfu_flist_walk.c:379`). An argument that does not exist hides those after it
  (`mfu_flist_walk.c:431`). A readdir that fails looks like the end of the directory
  (`mfu_flist_walk.c:356`, `483`; `mfu_readdir` returns NULL for both,
  `mfu_io.c:1460`): the rest of it is neither listed nor logged, and `dsync --delete`
  takes it for extraneous, as in `dsync_incomplete`.
- dcmp returns 0 after a walk that was not complete: it compares what it has.
- chmod skips an item whose listed mode is the new one, though the file may have
  another by then (`mfu_flist_chmod.c:1046`). `u+rx,u=g` is such a case:
  `mfu_perms_need_dir_rx` takes the part with `=` for one without letters
  (the fields it reads are not set in such a part,
  `mfu_flist_chmod.c:531-552`), so that the walk turns on the bits of directories
  whose listed mode is already the wanted one, and nobody takes them back. `Changed`
  names the exception, and the run `library` has that argument. `lchown` may clear a
  set-ID bit, which the skipped chmod then does not restore: `Chmod` has no such bits.
- `--link-dest`. A refresh sets the metadata of the inode that is shared with
  the third tree. Files linked anew keep that tree's permissions, and
  directories that receive links the current time. The key of a common item is
  cut by the length of the other tree's prefix and its index may be uninitialized
  (`dsync.c:1077-1090`): another item may be removed, whose link then
  fails, so that the run reports it. The result overwritten at `dsync.c:1845`
  does no harm to `Linked`: what the first comparison missed is copied.
- Paths. An empty argument becomes the root. The root spelled `//` names
  its items as if their first component were the source
  (`mfu_param_path.c:403`). A comment (`mfu_param_path.c:328-358`) takes a
  directory to a single file for an error; the check accepts it. Several
  sources are told apart by string prefix (`mfu_param_path.c:375`), so that `a`
  takes the items of `ab`, and of `a/b`. Their names are right all the same if the
  two sources lie equally deep and both or neither end with a slash; else too many
  components are cut, or too few.
- List files. An empty list is not written, and leaves an older file of that name
  in place (`mfu_flist_io.c:1533`, `1564`).

## 7. Plan

What is there is listed in section 2. What would come next, in order:

1. The ranks' control flow in `main` (`dsync.c:3294`): which collectives a rank
   enters after a test of its own.
2. libcircle's packed queue as a pure algorithm, and predicates.
3. Proofs: that a walk accounts for all items, over an abstract resolution of paths.
