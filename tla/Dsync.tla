------------------------------- MODULE Dsync --------------------------------
(***************************************************************************)
(* One dsync run after another over a small source and destination tree.   *)
(* A run walks both trees, compares the two lists key by key, and unless   *)
(* it is a dry run removes, creates, copies and refreshes in the           *)
(* destination, in phases that MPI barriers and collectives separate.      *)
(*                                                                         *)
(* dsync_map_fn sends a key of both lists to one rank, and each phase lets *)
(* every rank work through its own items; so within a phase items are      *)
(* processed in any order, and "todo" holds those that remain.  A phase    *)
(* that works level by level takes the items of the next depth only when   *)
(* none of the current one remains: that is its MPI_Barrier.  The ranks'   *)
(* return codes meet in an MPI_Allreduce with MPI_MIN, hence one rc.       *)
(*                                                                         *)
(* The walks are atomic here; the work stealing beneath them is the        *)
(* subject of Circle.  A file's chunks are copied by one action whose      *)
(* failure leaves the file torn.  Metadata is reduced to perm (owner,      *)
(* group and mode together) and mtime; whether access times differ is a    *)
(* choice.  The source does not change while dsync runs.                   *)
(***************************************************************************)
EXTENDS Integers, FiniteSets

CONSTANTS
    Paths,      \* keys: paths relative to the source and destination prefix
    Root,       \* the key of the two top directories
    ParentOf,   \* parent of each key, and of Root itself
    Depth,      \* depth of each key
    Bytes,      \* what a file holds, or a link leads to
    SrcTrees,   \* the source trees considered
    DstTrees,   \* the destination trees considered
    Options,    \* the option settings considered
    Faults,     \* the kinds of operations that may fail
    MaxFaults,  \* bound: kinds of operations that fail in one run
    MaxRuns,    \* bound: number of runs, one after the other
    Crashes,    \* whether a run may be killed
    Coarse      \* whether the destination stores whole seconds only

Absent == [type |-> "none"]

\* The time stamp that the destination stores when it is asked for t.
Stored(t) == IF Coarse THEN <<t[1], 0>> ELSE t
Now == Stored(<<9, 9>>)     \* the time of any change made by dsync itself

Items == [type : {"dir", "file", "link"}, size : Nat, bytes : Bytes,
          mtime : Nat \X Nat, perm : Nat]
Trees == [Paths -> Items \cup {Absent}]

ASSUME TreeAssumption ==
    /\ Root \in Paths /\ {"", "torn"} \subseteq Bytes
    /\ ParentOf \in [Paths -> Paths]
    /\ Depth \in [Paths -> Nat]
    /\ \A p \in Paths \ {Root} : ParentOf[p] # p /\ Depth[p] = Depth[ParentOf[p]] + 1
    /\ SrcTrees \subseteq Trees /\ DstTrees \subseteq Trees
    /\ \A t \in SrcTrees : t[Root].type = "dir"

\* An item lies in a directory; the files of the source are not dated like dsync's
\* own changes, and the destination's times are times it can store.
InDirectories(t) ==
    \A p \in Paths \ {Root} : t[p].type # "none" => t[ParentOf[p]].type = "dir"
StoredTimes(t) == \A p \in Paths : t[p].type # "none" => Stored(t[p].mtime) = t[p].mtime
ASSUME FileSystemAssumption ==
    /\ \A t \in SrcTrees : /\ InDirectories(t)
                           /\ \A p \in Paths : t[p].type = "file" => Stored(t[p].mtime) # Now
    /\ \A t \in DstTrees : InDirectories(t) /\ StoredTimes(t)

ASSUME OptionsAssumption ==
    Options \subseteq [delete : BOOLEAN, dry_run : BOOLEAN, contents : BOOLEAN,
                       parent_writable : BOOLEAN, batch_files : Nat]

ASSUME BoundsAssumption ==
    MaxFaults \in Nat /\ MaxRuns \in Nat /\ Crashes \in BOOLEAN /\ Coarse \in BOOLEAN

VARIABLES
    phase,     \* where the run is
    options,   \* command line options, and whether the destination's parent is writable
    src, dst,  \* the two trees
    src_list, dst_list,   \* what the two walks recorded
    src_cp_list,          \* items to copy to the destination
    dst_remove_list,      \* items to remove from the destination
    src_compare_list,     \* files whose contents must be compared
    metadata_refresh,     \* items whose metadata differed
    atime_differs,        \* items whose access times differed
    left,      \* items to copy that no batch has taken
    batch,     \* items of the current batch
    todo,      \* items of the current phase that are still to be processed
    rc,        \* dsync_strmap_compare's return code
    exit,      \* the exit status of the last run, or "killed"
    faults,    \* kinds of operations of this run that failed for a reason of their own
    runs,      \* runs started
    dst0,      \* the destination at the start of the run (history)
    prev       \* the exit status of the run before this one (history)

vars == <<phase, options, src, dst, src_list, dst_list, src_cp_list, dst_remove_list,
          src_compare_list, metadata_refresh, atime_differs, left, batch, todo, rc, exit,
          faults, runs, dst0, prev>>
lists == <<src_list, dst_list, src_cp_list, dst_remove_list, src_compare_list,
           metadata_refresh, atime_differs, left, batch>>
run == <<options, src, runs, dst0, prev>>

Phases == {"idle", "walk_src", "walk_dst", "compare", "data", "sync", "unlink_files",
           "unlink_dirs", "mkdir", "batch", "create", "copy", "meta", "meta_dirs", "refresh"}

TypeOK ==
    /\ phase \in Phases
    /\ options \in Options
    /\ src \in SrcTrees
    /\ dst \in Trees /\ dst0 \in Trees
    /\ src_list \in Trees /\ dst_list \in Trees
    /\ src_cp_list \subseteq Paths /\ dst_remove_list \subseteq Paths
    /\ src_compare_list \subseteq Paths /\ todo \subseteq Paths
    /\ metadata_refresh \subseteq Paths /\ atime_differs \subseteq Paths
    /\ left \subseteq Paths /\ batch \subseteq Paths
    /\ rc \in {0, -1}
    /\ exit \in {"none", "0", "1", "killed"} /\ prev \in {"none", "0", "1", "killed"}
    /\ faults \subseteq Faults
    /\ runs \in 0 .. MaxRuns

-----------------------------------------------------------------------------
(* The destination file system.                                             *)

Present(t) == {p \in Paths : t[p].type # "none"}
IsDir(t, p)  == t[p].type = "dir"
IsFile(t, p) == t[p].type = "file"
HasChildren(t, p) == \E q \in Paths \ {Root} : ParentOf[q] = p /\ q \in Present(t)
ParentIsDir(t, p) == p # Root => IsDir(t, ParentOf[p])

\* A change of a directory's entries sets its modification time.
Touched(t, p) == IF p = Root THEN t ELSE [t EXCEPT ![ParentOf[p]].mtime = Now]

\* unlink and rmdir; neither removes a directory that has entries.
Removed(t, p) == Touched([t EXCEPT ![p] = Absent], p)
CanRemove(t, p) == p \in Present(t) /\ ~(IsDir(t, p) /\ HasChildren(t, p))

\* mkdir, mknod and symlink: a new item under an existing directory.
Created(t, p, item) == Touched([t EXCEPT ![p] = item], p)
CanCreate(t, p) == p \notin Present(t) /\ ParentIsDir(t, p)

-----------------------------------------------------------------------------
(* The comparison: dsync_strmap_compare.                                    *)

Common == Present(src_list) \cap Present(dst_list)
OnlySrc == Present(src_list) \ Present(dst_list)
OnlyDst == Present(dst_list) \ Present(src_list)

TypeDiffers(p) == src_list[p].type # dst_list[p].type
SizeDiffers(p) == src_list[p].size # dst_list[p].size

\* Items of one type whose contents dsync looks at: regular files.
HaveContents == {p \in Common : ~TypeDiffers(p) /\ IsFile(dst_list, p)}
CompareList == {p \in HaveContents : ~SizeDiffers(p)}

\* dsync_strmap_compare_lite: same size, so contents are assumed different if the
\* modification times are.
LiteDiffersSeconds(p) == src_list[p].mtime[1] # dst_list[p].mtime[1]   \* mutant
LiteDiffers(p) == src_list[p].mtime # dst_list[p].mtime

\* Items that are removed from the destination and copied from the source.
Replaced == {p \in Common : TypeDiffers(p)}
            \cup {p \in HaveContents : SizeDiffers(p)}
            \cup {p \in CompareList : ~options.contents /\ LiteDiffers(p)}

\* Items whose metadata differ before anything is copied; only whole seconds count.
MetadataDiffers(p) ==
    \/ src_list[p].perm # dst_list[p].perm
    \/ src_list[p].mtime[1] # dst_list[p].mtime[1]

-----------------------------------------------------------------------------
(* A run.                                                                   *)

Fault(kind) == /\ kind \in Faults /\ Cardinality(faults) < MaxFaults
               /\ faults' = faults \cup {kind}
NoFault == UNCHANGED faults
FailsSilently == UNCHANGED rc      \* mutant
Fails == rc' = -1
Succeeds == UNCHANGED rc

Finish == phase' = "idle" /\ todo' = {} /\ exit' = IF rc = -1 THEN "1" ELSE "0"

Init ==
    /\ phase = "idle"
    /\ options \in Options
    /\ src \in SrcTrees
    /\ dst \in DstTrees /\ dst0 = dst
    /\ src_list = [p \in Paths |-> Absent] /\ dst_list = [p \in Paths |-> Absent]
    /\ src_cp_list = {} /\ dst_remove_list = {} /\ src_compare_list = {}
    /\ metadata_refresh = {} /\ atime_differs = {} /\ left = {} /\ batch = {} /\ todo = {}
    /\ rc = 0 /\ exit = "none" /\ prev = "none" /\ faults = {} /\ runs = 0

\* main: a destination parent that cannot be written ends the run, with rc still 0,
\* unless it is a dry run.
Start ==
    /\ phase = "idle" /\ runs < MaxRuns
    /\ runs' = runs + 1 /\ prev' = exit
    /\ dst0' = dst /\ rc' = 0 /\ faults' = {}
    /\ IF options.parent_writable \/ options.dry_run
         THEN phase' = "walk_src" /\ exit' = "none"
         ELSE phase' = "idle" /\ exit' = "0"
    /\ UNCHANGED <<options, src, dst, lists, todo>>

\* What a walk records: everything, or everything but what lies at or below the
\* items it could not read.  The error is logged and otherwise lost.
Unreadable(t) == {lost \in SUBSET Present(t) :
                    \A p \in Present(t) \ {Root} : ParentOf[p] \in lost => p \in lost}
Walked(t, lost) == [p \in Paths |-> IF p \in lost THEN Absent ELSE t[p]]

\* An empty source list ends the run with an error.
WalkSrc ==
    /\ phase = "walk_src"
    /\ \E lost \in Unreadable(src) :
         /\ IF lost = {} THEN NoFault ELSE Fault("walk_src")
         /\ src_list' = Walked(src, lost)
         /\ IF Root \in lost
              THEN phase' = "idle" /\ exit' = "1"
              ELSE phase' = "walk_dst" /\ UNCHANGED exit
    /\ UNCHANGED <<run, dst, dst_list, src_cp_list, dst_remove_list, src_compare_list,
                   metadata_refresh, atime_differs, left, batch, todo, rc>>

WalkDst ==
    /\ phase = "walk_dst"
    /\ \E lost \in Unreadable(dst) :
         /\ IF lost = {} THEN NoFault ELSE Fault("walk_dst")
         /\ dst_list' = Walked(dst, lost)
    /\ phase' = "compare"
    /\ UNCHANGED <<run, dst, src_list, src_cp_list, dst_remove_list, src_compare_list,
                   metadata_refresh, atime_differs, left, batch, todo, rc, exit>>

\* The loop over the source map and the comparison of sizes and times.  A dry run
\* leaves the lists of items to copy and to remove empty.
Compare ==
    /\ phase = "compare"
    /\ src_cp_list' = IF options.dry_run THEN {} ELSE OnlySrc \cup Replaced
    /\ dst_remove_list' = IF options.dry_run THEN {} ELSE Replaced
    /\ src_compare_list' = IF options.contents THEN CompareList ELSE {}
    /\ atime_differs' \in {{}, Common}
    /\ metadata_refresh' = {p \in Common : MetadataDiffers(p)} \cup atime_differs'
    /\ phase' = "data"
    /\ todo' = src_compare_list'
    /\ UNCHANGED <<run, dst, src_list, dst_list, left, batch, rc, exit, faults>>

\* dsync_strmap_compare_data and mfu_compare_contents: a file whose bytes differ is
\* overwritten in place.  A read error makes the run fail; a write error does so
\* only if no later part of the file differs, and either leaves the file torn.
OverwritesAlways == TRUE   \* mutant
Overwrites == ~options.dry_run
OverwrittenKeepingTime(p, bytes) == [dst EXCEPT ![p].bytes = bytes]   \* mutant
Overwritten(p, bytes) == [dst EXCEPT ![p].bytes = bytes, ![p].mtime = Now]
CompareData(p) ==
    /\ phase = "data" /\ p \in todo
    /\ todo' = todo \ {p}
    /\ \/ NoFault /\ Succeeds
          /\ dst' = IF Overwrites /\ dst[p].bytes # src_list[p].bytes
                      THEN Overwritten(p, src_list[p].bytes) ELSE dst
       \/ Fault("data") /\ Fails
          /\ \/ UNCHANGED dst
             \/ Overwrites /\ dst[p].bytes # src_list[p].bytes /\ dst' = Overwritten(p, "torn")
    /\ UNCHANGED <<run, phase, lists, exit>>

\* A dry run ends after the comparison.
DataDone ==
    /\ phase = "data" /\ todo = {}
    /\ IF options.dry_run THEN Finish
         ELSE phase' = "sync" /\ UNCHANGED <<todo, exit>>
    /\ UNCHANGED <<run, dst, lists, rc, faults>>

\* dsync_sync_files, up to mfu_flist_unlink: with --delete the items found only in the
\* destination are removed too.  Paths that mfu_param_path_check_copy refuses leave
\* the refresh of metadata as the only phase.
ExtraneousAlways == OnlyDst   \* mutant
Extraneous == IF options.delete THEN OnlyDst ELSE {}
SyncFiles ==
    /\ phase = "sync"
    /\ \/ /\ NoFault /\ Succeeds
          /\ dst_remove_list' = dst_remove_list \cup Extraneous
          /\ phase' = "unlink_files"
          /\ todo' = {p \in dst_remove_list' : ~IsDir(dst_list, p)}
       \/ /\ Fault("check") /\ Fails
          /\ phase' = "refresh" /\ todo' = metadata_refresh
          /\ UNCHANGED dst_remove_list
    /\ UNCHANGED <<run, dst, src_list, dst_list, src_cp_list, src_compare_list,
                   metadata_refresh, atime_differs, left, batch, exit>>

DeepestStrictly(p) == \A q \in todo : Depth[q] < Depth[p]   \* mutant
Deepest(p) == \A q \in todo : Depth[q] <= Depth[p]
Shallowest(p) == \A q \in todo : Depth[p] <= Depth[q]

\* mfu_flist_unlink: items that are not directories, then directories level by level
\* from the deepest.  What cannot be removed stays, and only the log knows.
Unlink(p) ==
    /\ \/ phase = "unlink_files"
       \/ phase = "unlink_dirs" /\ Deepest(p)
    /\ p \in todo /\ todo' = todo \ {p}
    /\ \/ NoFault /\ dst' = IF CanRemove(dst, p) THEN Removed(dst, p) ELSE dst
       \/ Fault("remove") /\ UNCHANGED dst
    /\ UNCHANGED <<run, phase, lists, rc, exit>>

New(type) == [type |-> type, size |-> 0, bytes |-> "", mtime |-> Now, perm |-> 0]

\* mfu_create_directory: the top directory is skipped if the destination argument
\* named something that exists when the arguments are read.
SkipsRoot(p) == p = Root /\ Root \in Present(dst0)
MakeDirectory(p) ==
    /\ phase = "mkdir" /\ p \in todo /\ Shallowest(p)
    /\ todo' = todo \ {p}
    /\ \/ NoFault
          /\ CASE SkipsRoot(p) \/ p \in Present(dst) -> Succeeds /\ UNCHANGED dst
               [] ~SkipsRoot(p) /\ CanCreate(dst, p) -> Succeeds /\ dst' = Created(dst, p, New("dir"))
               [] OTHER -> Fails /\ UNCHANGED dst
       \/ Fault("mkdir") /\ Fails /\ UNCHANGED dst
    /\ UNCHANGED <<run, phase, lists, exit>>

\* mfu_create_file and mfu_create_link: whatever has the name already is left there.
NewItem(p) == IF src_list[p].type = "link"
                THEN [New("link") EXCEPT !.bytes = src_list[p].bytes, !.size = src_list[p].size]
                ELSE New("file")
CreateItem(p) ==
    /\ phase = "create" /\ p \in todo /\ Shallowest(p)
    /\ todo' = todo \ {p}
    /\ \/ NoFault
          /\ CASE p \in Present(dst) -> Succeeds /\ UNCHANGED dst
               [] CanCreate(dst, p) -> Succeeds /\ dst' = Created(dst, p, NewItem(p))
               [] OTHER -> Fails /\ UNCHANGED dst
       \/ Fault("create") /\ Fails /\ UNCHANGED dst
    /\ UNCHANGED <<run, phase, lists, exit>>

\* The item that opening p reaches: a link leads to its target.
Reached(t, p) == IF t[p].type = "link" /\ t[p].bytes \in Paths THEN t[p].bytes ELSE p

\* mfu_copy_file opens with O_CREAT; a failed chunk leaves the file torn, and
\* mfu_copy_files keeps it.
Filled(p, bytes) ==
    LET q == Reached(dst, p)
        file == IF q \in Present(dst) THEN dst[q] ELSE New("file")
        full == [file EXCEPT !.bytes = bytes, !.size = src_list[p].size, !.mtime = Now]
    IN  IF q \in Present(dst) THEN [dst EXCEPT ![q] = full] ELSE Created(dst, q, full)
CopyData(p) ==
    /\ phase = "copy" /\ p \in todo
    /\ todo' = todo \ {p}
    /\ LET q == Reached(dst, p)
           opens == IsFile(dst, q) \/ CanCreate(dst, q)
       IN \/ /\ opens /\ dst' = Filled(p, src_list[p].bytes)
             /\ NoFault /\ Succeeds
          \/ /\ opens /\ dst' \in {dst, Filled(p, "torn")}
             /\ Fault("copy") /\ Fails
          \/ /\ ~opens /\ UNCHANGED dst
             /\ NoFault /\ Fails
          \/ /\ dst[q].type = "link" /\ UNCHANGED dst   \* the link leads out of the tree
             /\ NoFault /\ Succeeds
    /\ UNCHANGED <<run, phase, lists, exit>>

\* chmod is not used on links, and follows a link that it meets in the destination.
WithPerm(t, p) ==
    LET q == Reached(t, p)
    IN  IF src_list[p].type # "link" /\ q \in Present(t) /\ t[q].type # "link"
          THEN [t EXCEPT ![q].perm = src_list[p].perm] ELSE t
WithTimeSeconds(t, p) == [t EXCEPT ![p].mtime = <<src_list[p].mtime[1], 0>>]   \* mutant
WithTime(t, p) == [t EXCEPT ![p].mtime = Stored(src_list[p].mtime)]

\* The changes of p that are wanted, and what a failure may leave of them.
Set(p, perm, time) ==
    LET t == IF perm THEN WithPerm(dst, p) ELSE dst
    IN  IF time THEN WithTime(t, p) ELSE t
SetSome(p, perm, time) == {Set(p, ok[1], ok[2]) : ok \in {perm, FALSE} \X {time, FALSE}}

\* mfu_copy_set_metadata and mfu_copy_set_metadata_dirs, deepest level first;
\* mfu_flist_copy ignores their results.
SetMetadata(p) ==
    /\ phase \in {"meta", "meta_dirs"} /\ p \in todo /\ Deepest(p)
    /\ todo' = todo \ {p}
    /\ \/ p \in Present(dst) /\ NoFault /\ dst' = Set(p, TRUE, TRUE)
       \/ p \in Present(dst) /\ Fault("meta") /\ dst' \in SetSome(p, TRUE, TRUE)
       \/ p \notin Present(dst) /\ NoFault /\ UNCHANGED dst
    /\ UNCHANGED <<run, phase, lists, rc, exit>>

\* mfu_flist_file_sync_meta, for the items whose metadata differed before the copy.
PermDiffers(p) == src_list[p].perm # dst_list[p].perm \/ TypeDiffers(p)
TimeDiffers(p) == src_list[p].mtime # dst_list[p].mtime \/ p \in atime_differs
RefreshMetadata(p) ==
    /\ phase = "refresh" /\ p \in todo
    /\ todo' = todo \ {p}
    /\ \/ /\ p \in Present(dst) /\ dst' = Set(p, PermDiffers(p), TimeDiffers(p))
          /\ NoFault /\ Succeeds
       \/ /\ p \in Present(dst) /\ dst' \in SetSome(p, PermDiffers(p), TimeDiffers(p))
          /\ Fault("refresh") /\ Fails
       \/ /\ p \notin Present(dst) /\ UNCHANGED dst
          /\ NoFault /\ Fails
    /\ UNCHANGED <<run, phase, lists, exit>>

\* The phases from the removal on, and the items of each.
FollowsMetaEarly ==   \* mutant
    [unlink_files |-> "unlink_dirs", unlink_dirs |-> "mkdir", mkdir |-> "batch",
     create |-> "meta", meta |-> "copy", copy |-> "batch", meta_dirs |-> "refresh"]
Follows == [unlink_files |-> "unlink_dirs", unlink_dirs |-> "mkdir", mkdir |-> "batch",
            create |-> "copy", copy |-> "meta", meta |-> "batch", meta_dirs |-> "refresh"]
ItemsOf(ph) == CASE ph = "unlink_dirs" -> {p \in dst_remove_list : IsDir(dst_list, p)}
                 [] ph \in {"mkdir", "meta_dirs"} -> {p \in src_cp_list : IsDir(src_list, p)}
                 [] ph = "batch"   -> {}
                 [] ph = "copy"    -> {p \in batch : IsFile(src_list, p)}
                 [] ph = "meta"    -> batch
                 [] ph = "refresh" -> metadata_refresh
Barrier ==
    /\ phase \in DOMAIN Follows /\ todo = {}
    /\ phase' = Follows[phase]
    /\ todo' = ItemsOf(phase')
    /\ left' = IF phase = "mkdir" THEN src_cp_list ELSE left
    /\ batch' = IF phase = "meta" THEN {} ELSE batch
    /\ UNCHANGED <<run, dst, src_list, dst_list, src_cp_list, dst_remove_list,
                   src_compare_list, metadata_refresh, atime_differs, rc, exit, faults>>

\* The loop of mfu_flist_copy: as many items of the list at a time as --batch-files says,
\* the directories among them left out and given their metadata after the last batch;
\* or all at once.
Batches ==
    IF options.batch_files = 0 THEN {left}
    ELSE {b \in SUBSET left : \/ Cardinality(b) = options.batch_files
                              \/ b = left /\ Cardinality(b) < options.batch_files}
OfBatch(b) == IF options.batch_files = 0 THEN b ELSE {p \in b : ~IsDir(src_list, p)}
NextBatch ==
    /\ phase = "batch"
    /\ \/ /\ left # {}
          /\ \E b \in Batches : left' = left \ b /\ batch' = OfBatch(b)
          /\ phase' = IF batch' = {} THEN "batch" ELSE "create"
          /\ todo' = {p \in batch' : ~IsDir(src_list, p)}
       \/ /\ left = {}
          /\ phase' = IF options.batch_files = 0 THEN "refresh" ELSE "meta_dirs"
          /\ todo' = ItemsOf(phase')
          /\ UNCHANGED <<left, batch>>
    /\ UNCHANGED <<run, dst, src_list, dst_list, src_cp_list, dst_remove_list,
                   src_compare_list, metadata_refresh, atime_differs, rc, exit, faults>>

Done ==
    /\ phase = "refresh" /\ todo = {}
    /\ Finish
    /\ UNCHANGED <<run, dst, lists, rc, faults>>

\* The job is killed; a file that was being written is torn.
Crash ==
    /\ Crashes /\ phase # "idle"
    /\ phase' = "idle" /\ todo' = {} /\ exit' = "killed"
    /\ \/ UNCHANGED dst
       \/ /\ phase = "copy"
          /\ \E p \in todo : IsFile(dst, p) /\ dst' = Filled(p, "torn")
       \/ /\ phase = "data" /\ Overwrites
          /\ \E p \in todo : dst[p].bytes # src_list[p].bytes /\ dst' = Overwritten(p, "torn")
    /\ left' = {} /\ batch' = {}
    /\ UNCHANGED <<run, src_list, dst_list, src_cp_list, dst_remove_list,
                   src_compare_list, metadata_refresh, atime_differs, rc, faults>>

Item(p) == CompareData(p) \/ Unlink(p) \/ MakeDirectory(p) \/ CreateItem(p)
           \/ CopyData(p) \/ SetMetadata(p) \/ RefreshMetadata(p)
Step == WalkSrc \/ WalkDst \/ Compare \/ DataDone \/ SyncFiles \/ Barrier \/ NextBatch \/ Done
        \/ \E p \in Paths : Item(p)
Next == Start \/ Step \/ Crash

Spec == Init /\ [][Next]_vars
FairSpec == Spec /\ WF_vars(Step)

-----------------------------------------------------------------------------
(* Properties.                                                              *)

Data(item) == IF item.type = "none" THEN Absent
              ELSE [type |-> item.type, size |-> item.size, bytes |-> item.bytes]
Shape(item) == IF item.type = "none" THEN Absent
               ELSE [type |-> item.type, size |-> item.size, bytes |-> item.bytes,
                     perm |-> item.perm]
Ended == phase = "idle" /\ runs > 0
Clean == Ended /\ exit = "0" /\ faults = {} /\ ~options.dry_run /\ options.parent_writable

\* A destination file that the lite comparison cannot tell from the source's.
LooksDone(t, p) == /\ IsFile(src, p) /\ IsFile(t, p)
                   /\ t[p].size = src[p].size /\ t[p].mtime = Stored(src[p].mtime)

\* A link of the source cannot replace a directory that still has entries.
Blocked(p) == src[p].type = "link" /\ IsDir(dst, p) /\ HasChildren(dst, p) /\ ~options.delete

\* A destination that was no directory at the start: it is removed for the source's top
\* directory, which is not made then.
TopReplaced == dst0[Root].type \notin {"none", "dir"}

\* A run that succeeds without meeting a failure has brought every item of the source
\* to the destination: its type, its size and bytes (unless the lite comparison was
\* fooled by equal size and time), its permissions, and in lite mode its file times;
\* links that were links already keep their old target.  With --delete nothing else is
\* left there.  It holds after earlier runs that were killed as well: the next run
\* repairs what they left.
InSync(p) ==
    /\ dst[p].type = src[p].type
    /\ IsFile(src, p) =>
         /\ dst[p].size = src[p].size
         /\ dst[p].bytes = src[p].bytes \/ (~options.contents /\ LooksDone(dst0, p))
         /\ ~options.contents => dst[p].mtime = Stored(src[p].mtime)
    /\ src[p].type = "link" => dst[p].bytes = src[p].bytes \/ dst0[p].type = "link"
    /\ src[p].type # "link" => dst[p].perm = src[p].perm
Converged ==
    Clean /\ ~TopReplaced =>
             /\ \A p \in Present(src) : InSync(p) \/ Blocked(p)
             /\ options.delete => Present(dst) = Present(src)

\* Items copied afresh end with the source's times, directories included: nothing that
\* follows in the run disturbs them.
CopiedMetadata ==
    Clean /\ ~TopReplaced => \A p \in src_cp_list \ {q \in Paths : Blocked(q)} :
        dst[p].mtime = Stored(src[p].mtime)

\* Without --delete, whatever only the destination has keeps its type and bytes at
\* every moment of a run, even when another item of the run takes the place of a
\* directory above it, and even if the run is killed.
KeepsExtraneous ==
    ~options.delete /\ faults \cap {"remove", "walk_dst"} = {} =>
        \A p \in Present(dst0) \ Present(src) : Data(dst[p]) = Data(dst0[p])

\* A dry run changes nothing, whatever fails in it.
DryRunNonMutating == [][options.dry_run => UNCHANGED dst]_vars

\* A run after a successful one touches no item's type, size, bytes or permissions,
\* if that one left a directory at the top.
RepeatIsQuiet ==
    [][prev = "0" /\ IsDir(dst0, Root) => \A p \in Paths : Shape(dst'[p]) = Shape(dst[p])]_vars

\* An interrupted copy is never mistaken for a finished one: a file with the size and
\* time of the source's has its bytes, unless it was so when the run began.
TornNeverLooksDone ==
    \A p \in Paths : LooksDone(dst, p) =>
        dst[p].bytes = src[p].bytes \/ (LooksDone(dst0, p) /\ Data(dst[p]) = Data(dst0[p]))

\* Failures of the phases that return a code reach the exit status.
Reported == {"check", "data", "mkdir", "create", "copy", "refresh"}
FailureReported == Ended /\ faults \cap Reported # {} => exit \in {"1", "killed"}

\* Every run ends.
Ends == phase # "idle" ~> phase = "idle"

-----------------------------------------------------------------------------
(* What documents and comments say, and the code does not do.               *)

\* "an unreadable source subdirectory can make --delete remove entries that still
\* exist in the real source tree": such entries are to stay.
IncompleteWalkKeeps ==
    Ended /\ faults = {"walk_src"} =>
        \A p \in Present(src) \cap Present(dst0) : p \in Present(dst)

\* "repeating the same command must leave file bytes, link targets, mtimes, ... unchanged".
RepeatKeepsTimes == [][prev = "0" => UNCHANGED dst]_vars

\* "delete any destination file that failed to copy".
FailedCopyDeleted == Ended /\ exit = "1" => \A p \in Paths : IsFile(dst, p) => dst[p].bytes # "torn"

\* "Skipping the destination directory ONLY if it already exists".
TopDirectoryCreated ==
    phase = "create" /\ faults = {} /\ Root \in src_cp_list => IsDir(dst, Root)
=============================================================================
