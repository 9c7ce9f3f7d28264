------------------------------ MODULE LinkDest ------------------------------
(* dsync --link-dest: what the source and a third tree have in common is not *)
(* copied but linked, so that files of the destination and of that tree      *)
(* share their inodes.  dsync_strmap_compare, with hardlinks, compares the   *)
(* source with both trees, divides what is to be copied, and then removes,   *)
(* copies, links and refreshes.                                              *)
(*                                                                           *)
(* Only regular files are here; Dsync has the other types.  The ranks work   *)
(* through their own items, in any order within a phase.  The two            *)
(* comparisons write nothing, so each is one step.                           *)
EXTENDS Integers, FiniteSets, Bags

CONSTANTS
    LinkFiles,      \* the keys
    Scenes,         \* records of source, dst, link, store, atime, contents, delete, key
    LinkFaults,     \* kinds of calls that may fail
    MaxLinkFaults   \* bound: kinds of calls that fail in a run

\* scene.source gives each key its file, scene.dst and scene.link the inodes
\* that the names have at the start, scene.store what these hold.  A file is its
\* data, size, mtime and perm (owner, group and mode).  scene.key is
\* what dsync_generate_real_lists takes for the key of a destination's file: it
\* cuts off as many characters as the path of the source has.
VARIABLES
    scene,      \* the trees at the start of the run, whether access times differ, the options
    dirent,     \* the inode that each key has in the destination
    store,      \* what is in the inodes
    step,       \* where the run is
    copies,     \* src_cp_list, and src_real_cp_list after the division
    unlinks,    \* dst_remove_list
    alike,      \* dst_same_list
    linkalike,  \* link_same_list
    hardlinks,  \* link_dst_list
    refresh,    \* metadata_refresh
    todo,       \* what is left of the phase, a bag
    rc, verdict,
    failed      \* the kinds of calls that failed

linkVars == <<scene, dirent, store, step, copies, unlinks, alike, linkalike, hardlinks, refresh,
          todo, rc, verdict, failed>>
comparison == <<copies, unlinks, alike, linkalike, hardlinks, refresh>>

None == <<>>        \* no inode
NoFile == ""        \* no key
Torn == "torn"
Now == 9            \* the time of a change

\* Files hold data, names lead to inodes that exist, and an inode that a run makes
\* has a place in the store and is nobody's yet.
ScenesAssumption ==
    /\ IsFiniteSet(LinkFiles)
    /\ \A s \in Scenes :
          /\ DOMAIN s.source \subseteq LinkFiles
          /\ \A f \in DOMAIN s.source : "data" \in DOMAIN s.source[f]
          /\ DOMAIN s.dst = LinkFiles /\ DOMAIN s.link = LinkFiles
          /\ \A f \in LinkFiles :
                /\ <<"new", f>> \in DOMAIN s.store
                /\ \A i \in {s.dst[f], s.link[f]} \ {None} :
                      /\ i \in DOMAIN s.store /\ "data" \in DOMAIN s.store[i]
                      /\ \A g \in LinkFiles : i # <<"new", g>>

Source(f) == scene.source[f]
InSrc == DOMAIN scene.source
InDst == {f \in LinkFiles : scene.dst[f] # None}    \* dst_list
InLink == {f \in LinkFiles : scene.link[f] # None}  \* link_list
Walked(f) == scene.store[scene.dst[f]]
LinkWalked(f) == scene.store[scene.link[f]]

Fails(kind) ==
    /\ kind \in LinkFaults /\ Cardinality(failed \cup {kind}) <= MaxLinkFaults
    /\ failed' = failed \cup {kind}

\* The files of a set that turn out to be different; one that cannot be read is
\* taken for different.
AlwaysSame(f, file) == TRUE     \* mutant
Same(f, file) == IF scene.contents THEN Source(f).data = file.data
                 ELSE Source(f).mtime = file.mtime
SizeOf(file) == file.size

LinkInit ==
    /\ scene \in Scenes
    /\ dirent = scene.dst /\ store = scene.store
    /\ step = "compare" /\ copies = {} /\ unlinks = EmptyBag /\ alike = {} /\ linkalike = {}
    /\ hardlinks = EmptyBag /\ refresh = {} /\ todo = EmptyBag
    /\ rc = 0 /\ verdict = "none" /\ failed = {}

\* dsync_strmap_compare, dsync_strmap_compare_data and _lite with use_hardlinks:
\* nothing is overwritten, and what differs is removed and copied.
PermDiffers(f) == Source(f).perm # Walked(f).perm
TimesDiffer(f) == scene.atime \/ Source(f).mtime # Walked(f).mtime
ToRemoveNone(fs) == EmptyBag    \* mutant
ToRemove(fs) == SetToBag(fs)
Compare ==
    /\ step = "compare"
    /\ LET common == InSrc \cap InDst
           compared == {f \in common : SizeOf(Source(f)) = SizeOf(Walked(f))}
       IN  \E unread \in SUBSET compared :
              LET differ == (common \ compared) \cup unread
                                \cup {f \in compared : ~Same(f, Walked(f))}
              IN  /\ IF unread = {} THEN UNCHANGED <<rc, failed>>
                     ELSE scene.contents /\ Fails("read") /\ rc' = -1
                  /\ copies' = (InSrc \ InDst) \cup differ
                  /\ unlinks' = ToRemove(differ)
                  /\ alike' = common \ differ
                  /\ refresh' = {f \in common : PermDiffers(f) \/ TimesDiffer(f)}
    /\ step' = "comparelink"
    /\ UNCHANGED <<scene, dirent, store, linkalike, hardlinks, todo, verdict>>

\* dsync_strmap_compare_link_dest: the code it returns, 0, takes the place of the
\* first comparison's.
LinkSame(f) == Same(f, LinkWalked(f))
CompareLink ==
    /\ step = "comparelink"
    /\ LET compared == {f \in InSrc \cap InLink : SizeOf(Source(f)) = SizeOf(LinkWalked(f))}
       IN  \E unread \in SUBSET compared :
              /\ IF unread = {} THEN UNCHANGED failed
                 ELSE scene.contents /\ Fails("readlink")
              /\ linkalike' = {f \in compared \ unread : LinkSame(f)}
    /\ rc' = 0 /\ step' = "lists"
    /\ UNCHANGED <<scene, dirent, store, copies, unlinks, alike, hardlinks, refresh, todo, verdict>>

\* The bag of the values that g has on a set of files.
Images(g, fs) == [e \in {g[f] : f \in fs} |-> Cardinality({f \in fs : g[f] = e})]

\* dsync_generate_real_lists: of the files to copy, the ones that the third tree
\* has are linked; of the files that the destination has already, the ones that
\* it has too are removed and linked, unless they are the same inode.  The index
\* of a key that the destination lacks is not set (the assertion is compiled
\* out), and another file, or none, is removed.
Divide ==
    /\ step = "lists"
    /\ \E index \in [alike -> LinkFiles \cup {NoFile}] :
          LET k == scene.key
              found == {f \in alike : k[f] \in linkalike}
              linked(f) == index[f] \in InDst /\ scene.dst[index[f]] = scene.link[k[f]]
              replaced == {f \in found : ~linked(f)}
          IN  /\ \A f \in alike :
                    IF f \notin found THEN index[f] = NoFile
                    ELSE IF k[f] \in InDst THEN index[f] = k[f]
                    ELSE index[f] \in InDst \cup {NoFile}
              /\ copies' = copies \ linkalike
              /\ hardlinks' = SetToBag(copies \cap linkalike)
                                  (+) Images(k, replaced)
              /\ unlinks' = unlinks (+) Images(index, {f \in replaced : index[f] # NoFile})
    /\ step' = "sync"
    /\ UNCHANGED <<scene, dirent, store, alike, linkalike, refresh, todo, rc, verdict, failed>>

\* dsync_sync_files, up to mfu_flist_unlink.  Paths that are refused leave only
\* the refresh.
Sync ==
    /\ step = "sync"
    /\ \/ /\ unlinks' = unlinks (+) SetToBag(IF scene.delete THEN InDst \ InSrc ELSE {})
          /\ step' = "unlink" /\ todo' = unlinks' /\ UNCHANGED <<rc, failed>>
       \/ /\ Fails("check") /\ rc' = -1
          /\ step' = "refresh" /\ todo' = SetToBag(refresh) /\ UNCHANGED unlinks
    /\ UNCHANGED <<scene, dirent, store, copies, alike, linkalike, hardlinks, refresh, verdict>>

Took(f) == BagIn(f, todo) /\ todo' = todo (-) SetToBag({f})
Named(f) == dirent[f] # None
Rest == UNCHANGED <<scene, step, comparison, verdict>>

\* mfu_flist_unlink: what is gone already is as good as removed.
Unlink(f) ==
    /\ step = "unlink" /\ Took(f) /\ Rest
    /\ \/ dirent' = [dirent EXCEPT ![f] = None] /\ UNCHANGED failed
       \/ Named(f) /\ Fails("remove") /\ UNCHANGED dirent
    /\ UNCHANGED <<store, rc>>

\* mfu_create_files and mfu_copy_files: a name that is there keeps its inode.
Copy(f) ==
    LET new == <<"new", f>>
        n == IF Named(f) THEN dirent[f] ELSE new
        filled(data) == [Source(f) EXCEPT !.data = data, !.mtime = Now,
                                          !.perm = IF Named(f) THEN store[n].perm ELSE 0]
    IN  /\ step = "copy" /\ Took(f) /\ Rest
        /\ \/ /\ dirent' = [dirent EXCEPT ![f] = n]
              /\ store' = [store EXCEPT ![n] = filled(Source(f).data)]
              /\ UNCHANGED <<rc, failed>>
           \/ /\ Fails("copy") /\ rc' = -1
              /\ \/ UNCHANGED <<dirent, store>>
                 \/ /\ dirent' = [dirent EXCEPT ![f] = n]
                    /\ store' = [store EXCEPT ![n] = filled(Torn)]

\* The metadata of a list's entry, given to the item that has the name.
Given(f, file) ==
    store' = IF Named(f)
             THEN [store EXCEPT ![dirent[f]].mtime = file.mtime, ![dirent[f]].perm = file.perm]
             ELSE store

\* mfu_copy_set_metadata in mfu_flist_copy, whose code is dropped.
SetMetadata(f) ==
    /\ step = "metadata" /\ Took(f) /\ Rest
    /\ Given(f, Source(f))
    /\ UNCHANGED <<dirent, rc, failed>>

\* mfu_create_hardlink
Hardlink(f) ==
    /\ step = "link" /\ Took(f) /\ Rest
    /\ \/ ~Named(f) /\ dirent' = [dirent EXCEPT ![f] = scene.link[f]] /\ UNCHANGED <<rc, failed>>
       \/ Named(f) /\ rc' = -1 /\ UNCHANGED <<dirent, failed>>
       \/ ~Named(f) /\ Fails("link") /\ rc' = -1 /\ UNCHANGED dirent
    /\ UNCHANGED store

\* mfu_copy_set_metadata in mfu_flist_hardlink: what the walk found in the third
\* tree.
SetLinkMetadata(f) ==
    /\ step = "linkmetadata" /\ Took(f) /\ Rest
    /\ Given(f, LinkWalked(f))
    /\ UNCHANGED <<dirent, rc, failed>>

\* mfu_flist_file_sync_meta: what differed at the walk.
Refresh(f) ==
    /\ step = "refresh" /\ Took(f) /\ Rest
    /\ \/ /\ Named(f) /\ UNCHANGED <<rc, failed>>
          /\ store' = [store EXCEPT
                ![dirent[f]].perm = IF PermDiffers(f) THEN Source(f).perm ELSE @,
                ![dirent[f]].mtime = IF TimesDiffer(f) THEN Source(f).mtime ELSE @]
       \/ ~Named(f) /\ rc' = -1 /\ UNCHANGED <<store, failed>>
       \/ Named(f) /\ Fails("refresh") /\ rc' = -1 /\ UNCHANGED store
    /\ UNCHANGED dirent

\* The barriers and collectives between the phases.
Goto(from, to, items) ==
    step = from /\ step' = to /\ todo' = items /\ UNCHANGED verdict
NextPhase ==
    /\ todo = EmptyBag
    /\ \/ Goto("unlink", "copy", SetToBag(copies))
       \/ Goto("copy", "metadata", SetToBag(copies))
       \/ Goto("metadata", "link", hardlinks)
       \/ Goto("link", "linkmetadata", hardlinks)
       \/ Goto("linkmetadata", "refresh", SetToBag(refresh))
       \/ /\ step = "refresh" /\ step' = "end"
          /\ verdict' = IF rc = 0 THEN "success" ELSE "failure"
          /\ UNCHANGED todo
    /\ UNCHANGED <<scene, dirent, store, comparison, rc, failed>>

LinkNext ==
    \/ Compare \/ CompareLink \/ Divide \/ Sync \/ NextPhase
    \/ \E f \in LinkFiles : \/ Unlink(f) \/ Copy(f) \/ SetMetadata(f) \/ Hardlink(f)
                            \/ SetLinkMetadata(f) \/ Refresh(f)

LinkSpec == LinkInit /\ [][LinkNext]_linkVars

LinkOver == step = "end"

-----------------------------------------------------------------------------
(* Properties                                                                *)

\* The files of the third tree, which the destination may share, hold at every
\* moment of a run what they held before; unless a file that was to be removed
\* could not be, and is written in its place (mfu_flist_copy.c:1236).
LinkDestKept ==
    "remove" \notin failed =>
        \A f \in InLink : store[scene.link[f]].data = LinkWalked(f).data

LooksDone(f, file) == ~scene.contents /\ file.size = Source(f).size /\ file.mtime = Source(f).mtime

\* No two files of the destination share an inode, nor one of them and another
\* file of the third tree.
InodesApart ==
    \A f, g \in LinkFiles : f # g /\ scene.dst[f] # None =>
        scene.dst[f] # scene.dst[g] /\ scene.dst[f] # scene.link[g]

\* "hardlink to files in DIR when unchanged" (dsync.c:77): a run that reports no
\* error leaves every file of the source at the destination, with its data as far
\* as the comparison tells, and linked if it had to be made and the third tree
\* has it.  Nothing that only the destination has is gone without --delete.  An
\* error of the first comparison, which the second one's code hides
\* (dsync.c:1845), does no harm to this.  It is so unless a file that could not be
\* removed shares its inode with another, which the copy in its place then writes.
Linked ==
    verdict = "success" /\ ("remove" \in failed => InodesApart) =>
        /\ \A f \in InSrc :
              /\ Named(f)
              /\ \/ store[dirent[f]].data = Source(f).data
                 \/ f \in InDst /\ dirent[f] = scene.dst[f] /\ LooksDone(f, Walked(f))
                 \/ f \in InLink /\ dirent[f] = scene.link[f] /\ LooksDone(f, LinkWalked(f))
              /\ f \in linkalike /\ f \notin alike => dirent[f] = scene.link[f]
        /\ ~scene.delete => \A f \in InDst \ InSrc : Named(f)
=============================================================================
