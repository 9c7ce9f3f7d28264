----------------------------- MODULE DsyncProofs ----------------------------
(* Proofs about Dsync, for any trees, options, faults and number of runs.    *)
EXTENDS Dsync, TLAPS

Entry == Items \cup {Absent}

-----------------------------------------------------------------------------
(* What the file system's operators do to entries and trees.                *)

LEMMA Times == /\ Now \in Nat \X Nat
               /\ \A t \in Nat \X Nat : Stored(t) \in Nat \X Nat
  BY BoundsAssumption DEF Now, Stored

LEMMA EntryTypes == /\ Absent \in Entry /\ Absent.type = "none"
                    /\ \A i \in Entry : i \in Items <=> i.type # "none"
  BY DEF Entry, Items, Absent

LEMMA SetTime ==
  ASSUME NEW i \in Entry, NEW t \in Nat \X Nat
  PROVE  /\ [i EXCEPT !.mtime = t] \in Entry
         /\ [i EXCEPT !.mtime = t].type = i.type
         /\ Data([i EXCEPT !.mtime = t]) = Data(i)
<1>1. CASE i \in Items
  BY <1>1 DEF Entry, Items, Data, Absent
<1>2. CASE i = Absent
  <2>1. [i EXCEPT !.mtime = t] = Absent
    BY <1>2 DEF Absent
  <2> QED BY <2>1, <1>2 DEF Entry
<1> QED BY <1>1, <1>2 DEF Entry

LEMMA SetPerm ==
  ASSUME NEW i \in Items, NEW n \in Nat
  PROVE  /\ [i EXCEPT !.perm = n] \in Items
         /\ [i EXCEPT !.perm = n].type = i.type
         /\ Data([i EXCEPT !.perm = n]) = Data(i)
  BY DEF Items, Data, Absent

LEMMA TouchedTree ==
  ASSUME NEW t \in Trees, NEW p \in Paths
  PROVE  /\ Touched(t, p) \in Trees
         /\ \A q \in Paths : /\ Touched(t, p)[q].type = t[q].type
                             /\ Data(Touched(t, p)[q]) = Data(t[q])
<1>1. CASE p = Root
  BY <1>1 DEF Touched
<1>2. CASE p # Root
  <2> DEFINE q == ParentOf[p]
  <2>1. q \in Paths
    BY TreeAssumption
  <2>2. t[q] \in Entry /\ t \in [Paths -> Entry]
    BY <2>1 DEF Trees, Entry
  <2> DEFINE e == [t[q] EXCEPT !.mtime = Now]
  <2>3. e \in Entry /\ e.type = t[q].type /\ Data(e) = Data(t[q])
    BY <2>2, Times, SetTime
  <2>4. Touched(t, p) = [t EXCEPT ![q] = e]
    BY <1>2, <2>1, <2>2 DEF Touched
  <2> HIDE DEF e, q
  <2> QED BY <2>1, <2>2, <2>3, <2>4 DEF Trees, Entry
<1> QED BY <1>1, <1>2

\* Putting an entry under a name leaves every other name's type, size and bytes alone.
LEMMA PlacedTree ==
  ASSUME NEW t \in Trees, NEW p \in Paths, NEW i \in Entry
  PROVE  /\ Touched([t EXCEPT ![p] = i], p) \in Trees
         /\ Touched([t EXCEPT ![p] = i], p)[p].type = i.type
         /\ \A q \in Paths \ {p} :
              /\ Touched([t EXCEPT ![p] = i], p)[q].type = t[q].type
              /\ Data(Touched([t EXCEPT ![p] = i], p)[q]) = Data(t[q])
<1> DEFINE u == [t EXCEPT ![p] = i]
<1>1. u \in Trees /\ u[p] = i /\ \A q \in Paths \ {p} : u[q] = t[q]
  BY DEF Trees, Entry
<1> HIDE DEF u
<1>2. /\ Touched(u, p) \in Trees
      /\ \A q \in Paths : /\ Touched(u, p)[q].type = u[q].type
                          /\ Data(Touched(u, p)[q]) = Data(u[q])
  BY <1>1, TouchedTree
<1>3. /\ Touched(u, p) \in Trees
      /\ Touched(u, p)[p].type = i.type
      /\ \A q \in Paths \ {p} : /\ Touched(u, p)[q].type = t[q].type
                                /\ Data(Touched(u, p)[q]) = Data(t[q])
  BY <1>1, <1>2
<1> QED BY <1>3 DEF u

LEMMA NewEntry ==
  /\ New("file") \in Items /\ New("file").type = "file"
  /\ New("dir") \in Items /\ New("dir").type = "dir"
  /\ New("link") \in Items /\ New("link").type = "link"
<1>1. ASSUME NEW type \in {"dir", "file", "link"}, NEW b \in Bytes, NEW n \in Nat,
             NEW t \in Nat \X Nat, NEW m \in Nat
      PROVE  LET i == [type |-> type, size |-> n, bytes |-> b, mtime |-> t, perm |-> m]
             IN  i \in Items /\ i.type = type
  BY DEF Items
<1>2. ASSUME NEW type \in {"dir", "file", "link"}
      PROVE  New(type) \in Items /\ New(type).type = type
  <2>1. Now \in Nat \X Nat /\ "" \in Bytes /\ 0 \in Nat
    BY Times, TreeAssumption
  <2> HIDE DEF Now
  <2> QED BY ONLY <1>1, <2>1 DEF New
<1> QED BY ONLY <1>2

\* What comes of a file that is written, in place or by a copy.
LEMMA WrittenEntry ==
  ASSUME NEW i \in Items, NEW b \in Bytes, NEW n \in Nat
  PROVE  /\ [i EXCEPT !.bytes = b, !.mtime = Now] \in Items
         /\ [i EXCEPT !.bytes = b, !.mtime = Now].type = i.type
         /\ [i EXCEPT !.bytes = b, !.size = n, !.mtime = Now] \in Items
         /\ [i EXCEPT !.bytes = b, !.size = n, !.mtime = Now].type = i.type
<1>1. Now \in Nat \X Nat
  BY Times
<1> HIDE DEF Now
<1> QED BY <1>1 DEF Items

LEMMA OverwrittenTree ==
  ASSUME dst \in Trees, NEW p \in Paths, dst[p] \in Items, NEW b \in Bytes
  PROVE  /\ Overwritten(p, b) \in Trees
         /\ Overwritten(p, b)[p].type = dst[p].type
         /\ \A q \in Paths \ {p} : Overwritten(p, b)[q] = dst[q]
<1> DEFINE i == [dst[p] EXCEPT !.bytes = b, !.mtime = Now]
<1>1. i \in Items /\ i.type = dst[p].type
  BY WrittenEntry, BoundsAssumption
<1>2. Overwritten(p, b) = [dst EXCEPT ![p] = i]
  BY DEF Overwritten, Trees
<1> HIDE DEF i
<1> QED BY <1>1, <1>2 DEF Trees

LEMMA ReachedPath ==
  ASSUME NEW t, NEW p \in Paths
  PROVE  Reached(t, p) \in Paths /\ (t[p].type # "link" => Reached(t, p) = p)
  BY DEF Reached

LEMMA FilledTree ==
  ASSUME dst \in Trees, NEW p \in Paths, NEW b \in Bytes, src_list[p] \in Items,
         NEW q \in Paths, q = Reached(dst, p)
  PROVE  /\ Filled(p, b) \in Trees
         /\ q \in Present(dst) => Filled(p, b)[q].type = dst[q].type
         /\ q \notin Present(dst) => Filled(p, b)[q].type = "file"
         /\ \A r \in Paths \ {q} : /\ Filled(p, b)[r].type = dst[r].type
                                   /\ Data(Filled(p, b)[r]) = Data(dst[r])
<1> DEFINE file == IF q \in Present(dst) THEN dst[q] ELSE New("file")
           full == [file EXCEPT !.bytes = b, !.size = src_list[p].size, !.mtime = Now]
<1>1. file \in Items /\ (q \notin Present(dst) => file.type = "file")
  BY NewEntry DEF Present, Trees, Absent
<1>2. src_list[p].size \in Nat
  BY DEF Items
<1> HIDE DEF file
<1>3. full \in Items /\ full.type = file.type
  BY <1>1, <1>2, WrittenEntry, ZenonT(30)
<1>4. Filled(p, b) = IF q \in Present(dst) THEN [dst EXCEPT ![q] = full]
                     ELSE Touched([dst EXCEPT ![q] = full], q)
  BY DEF Filled, Created, file
<1> HIDE DEF full
<1>5. CASE q \in Present(dst)
  <2>1. file.type = dst[q].type
    BY <1>5 DEF file
  <2> QED BY <1>3, <1>4, <1>5, <2>1 DEF Trees
<1>6. CASE q \notin Present(dst)
  <2>1. full \in Entry
    BY <1>3 DEF Entry
  <2> DEFINE u == Touched([dst EXCEPT ![q] = full], q)
  <2>2. /\ u \in Trees /\ u[q].type = full.type
        /\ \A r \in Paths \ {q} : u[r].type = dst[r].type /\ Data(u[r]) = Data(dst[r])
    BY ONLY <2>1, dst \in Trees, q \in Paths, PlacedTree
  <2>3. Filled(p, b) = u /\ full.type = "file"
    BY <1>1, <1>3, <1>4, <1>6
  <2> HIDE DEF u
  <2> QED BY ONLY <1>6, <2>2, <2>3
<1> QED BY <1>5, <1>6

LEMMA SetTree ==
  ASSUME dst \in Trees, NEW p \in Paths, src_list[p] \in Items, NEW perm, NEW time
  PROVE  /\ Set(p, perm, time) \in Trees
         /\ \A q \in Paths : /\ Set(p, perm, time)[q].type = dst[q].type
                             /\ Data(Set(p, perm, time)[q]) = Data(dst[q])
<1>1. /\ WithPerm(dst, p) \in Trees
      /\ \A q \in Paths : /\ WithPerm(dst, p)[q].type = dst[q].type
                          /\ Data(WithPerm(dst, p)[q]) = Data(dst[q])
  <2> DEFINE q == Reached(dst, p)
             i == [dst[q] EXCEPT !.perm = src_list[p].perm]
  <2>1. CASE src_list[p].type # "link" /\ q \in Present(dst) /\ dst[q].type # "link"
    <3>1. q \in Paths /\ dst[q] \in Items /\ src_list[p].perm \in Nat
      BY <2>1, ReachedPath DEF Present, Trees, Absent, Items
    <3>2. i \in Items /\ i.type = dst[q].type /\ Data(i) = Data(dst[q])
      BY <3>1, SetPerm
    <3>3. WithPerm(dst, p) = [dst EXCEPT ![q] = i]
      BY <2>1, <3>1 DEF WithPerm, Trees
    <3> HIDE DEF i, q
    <3> QED BY <3>1, <3>2, <3>3 DEF Trees
  <2>2. CASE ~(src_list[p].type # "link" /\ q \in Present(dst) /\ dst[q].type # "link")
    BY <2>2 DEF WithPerm
  <2> QED BY <2>1, <2>2
<1>2. ASSUME NEW t \in Trees
      PROVE  /\ WithTime(t, p) \in Trees
             /\ \A q \in Paths : /\ WithTime(t, p)[q].type = t[q].type
                                 /\ Data(WithTime(t, p)[q]) = Data(t[q])
  <2> DEFINE i == [t[p] EXCEPT !.mtime = Stored(src_list[p].mtime)]
  <2>1. src_list[p].mtime \in Nat \X Nat
    BY DEF Items
  <2>2. Stored(src_list[p].mtime) \in Nat \X Nat
    BY ONLY <2>1, Times
  <2>3. t[p] \in Entry
    BY DEF Trees, Entry
  <2>4. i \in Entry /\ i.type = t[p].type /\ Data(i) = Data(t[p])
    BY ONLY <2>2, <2>3, SetTime
  <2>5. WithTime(t, p) = [t EXCEPT ![p] = i]
    BY DEF WithTime, Trees
  <2> HIDE DEF i
  <2> QED BY <2>4, <2>5 DEF Trees, Entry
<1> DEFINE t == IF perm THEN WithPerm(dst, p) ELSE dst
<1>3. t \in Trees /\ \A q \in Paths : t[q].type = dst[q].type /\ Data(t[q]) = Data(dst[q])
  BY <1>1
<1>4. Set(p, perm, time) = IF time THEN WithTime(t, p) ELSE t
  BY DEF Set
<1> HIDE DEF t
<1> QED BY <1>2, <1>3, <1>4

-----------------------------------------------------------------------------
(* The inductive invariant.                                                  *)

Active == phase \notin {"idle", "walk_src", "walk_dst", "compare"}

\* The work lists hold items of the lists they were made from.
ListsInv ==
    /\ Present(src_list) \subseteq Present(src)
    /\ Active => /\ src_cp_list \subseteq Present(src_list)
                 /\ src_compare_list \subseteq Common
                 /\ metadata_refresh \subseteq Common
                 /\ ~options.delete => dst_remove_list \subseteq Present(src_list)

\* What remains to be done belongs to the phase.
TodoInv ==
    /\ phase = "data" => todo \subseteq src_compare_list
    /\ phase \in {"unlink_files", "unlink_dirs"} => todo \subseteq dst_remove_list
    /\ phase \in {"mkdir", "create", "copy", "meta", "meta_dirs"} => todo \subseteq src_cp_list
    /\ phase \in {"create", "copy", "meta"} => todo \subseteq batch
    /\ phase = "copy" => \A p \in todo : IsFile(src_list, p)
    /\ phase = "refresh" => todo \subseteq metadata_refresh

\* The batches are taken from the items to copy, each item once.
Copying == phase \in {"batch", "create", "copy", "meta"}
PassInv ==
    /\ Copying => left \subseteq src_cp_list /\ batch \subseteq src_cp_list \ left
    /\ ~Copying => left = {} /\ batch = {}
    /\ phase = "batch" => batch = {} /\ todo = {}
    /\ options.batch_files = 0 =>
         /\ phase = "batch" => left \in {{}, src_cp_list}
         /\ phase \in {"create", "copy", "meta"} => batch = src_cp_list

\* Until something is removed the destination has the types that the walk recorded.
SnapshotInv ==
    phase \in {"compare", "data", "sync"} =>
        \A p \in Paths : /\ dst_list[p].type \in {dst[p].type, "none"}
                         /\ "walk_dst" \notin faults => dst_list[p].type = dst[p].type

\* A link that stands where a file is to be copied is on the list to be removed, and
\* once links are removed there is none.
LinkInv ==
    faults \cap {"remove", "walk_dst"} = {} =>
        /\ phase \in {"data", "sync"} =>
             \A p \in src_cp_list \cap Common : TypeDiffers(p) => p \in dst_remove_list
        /\ phase \in {"unlink_files", "unlink_dirs", "mkdir", "batch", "create", "copy", "meta"} =>
             \A p \in src_cp_list :
                 IsFile(src_list, p) /\ dst[p].type = "link"
                     => phase = "unlink_files" /\ p \in todo

\* A dry run never gets as far as the phases that change the destination.
DryInv == options.dry_run => phase \in {"idle", "walk_src", "walk_dst", "compare", "data"}

\* A failure that is to be reported is remembered until the run ends.
FailInv == phase # "idle" /\ faults \cap Reported # {} => rc = -1

IInv == TypeOK /\ ListsInv /\ TodoInv /\ PassInv /\ SnapshotInv /\ LinkInv /\ DryInv /\ FailInv
        /\ FailureReported /\ KeepsExtraneous

-----------------------------------------------------------------------------
(* What processing one item of a phase does.                                *)

ItemPhases == {"data", "unlink_files", "unlink_dirs", "mkdir", "create", "copy", "meta",
               "meta_dirs", "refresh"}

Effect(p) ==
    /\ phase \in ItemPhases
    /\ p \in todo /\ todo' = todo \ {p}
    /\ UNCHANGED <<run, phase, lists, exit>>
    /\ dst' \in Trees
    /\ rc' \in {rc, -1}
    /\ faults \subseteq faults' /\ faults' \subseteq Faults
    /\ faults' \cap Reported # {} => rc' = -1
    /\ phase = "data" => \A q \in Paths : dst'[q].type = dst[q].type
    /\ \A q \in Paths \ {p} :
         (phase = "copy" => q # Reached(dst, p)) => Data(dst'[q]) = Data(dst[q])
    /\ \A q \in Paths : dst'[q].type = "link"
         => dst[q].type = "link" \/ (phase = "create" /\ src_list[q].type = "link")
    /\ phase = "unlink_files" /\ "remove" \notin faults' /\ dst[p].type = "link"
         => dst'[p].type # "link"
    /\ options.dry_run => dst' = dst

LEMMA Faulted ==
  ASSUME faults \subseteq Faults, NEW kind, Fault(kind) \/ NoFault
  PROVE  /\ faults \subseteq faults' /\ faults' \subseteq Faults
         /\ kind \notin Reported => faults' \cap Reported = faults \cap Reported
         /\ NoFault => faults' = faults
         /\ Fault(kind) => kind \in faults'
  BY DEF Fault, NoFault

LEMMA Listed ==
  ASSUME IInv, Active, NEW p \in Paths
  PROVE  /\ dst \in Trees /\ rc \in {0, -1} /\ faults \subseteq Faults
         /\ faults \cap Reported # {} => rc = -1
         /\ p \in src_cp_list \/ p \in Common => src_list[p] \in Items
<1>1. src_list \in Trees
  BY DEF IInv, TypeOK
<1>2. \A q \in Present(src_list) : src_list[q] \in Items
  BY <1>1 DEF Present, Trees, Absent
<1> QED BY <1>2 DEF IInv, TypeOK, ListsInv, Active, FailInv, Common

LEMMA CompareDataEffect ==
  ASSUME IInv, NEW p \in Paths, CompareData(p)
  PROVE  Effect(p)
<1>1. /\ phase = "data" /\ Active /\ phase \in ItemPhases
      /\ p \in todo /\ todo' = todo \ {p}
  BY DEF CompareData, Active, ItemPhases
<1>2. /\ dst \in Trees /\ rc \in {0, -1} /\ faults \subseteq Faults
      /\ faults \cap Reported # {} => rc = -1
      /\ src_list[p] \in Items /\ dst[p] \in Items
  <2>1. p \in Common
    BY <1>1 DEF IInv, TodoInv, ListsInv
  <2>2. dst[p].type # "none"
    BY <2>1, <1>1 DEF IInv, SnapshotInv, Common, Present
  <2> QED BY <1>1, <2>1, <2>2, Listed DEF Trees, Absent
<1>3. dst' = dst \/ (Overwrites /\ \E b \in Bytes : dst' = Overwritten(p, b))
  <2>1. src_list[p].bytes \in Bytes /\ "torn" \in Bytes
    BY <1>2, TreeAssumption DEF Items
  <2> QED BY <2>1 DEF CompareData
<1>4. /\ dst' \in Trees
      /\ \A q \in Paths : dst'[q].type = dst[q].type
      /\ \A q \in Paths \ {p} : dst'[q] = dst[q]
  BY <1>2, <1>3, OverwrittenTree
<1>5. /\ faults \subseteq faults' /\ faults' \subseteq Faults
      /\ faults' \cap Reported # {} => rc' = -1
      /\ rc' \in {rc, -1}
  BY <1>2, Faulted DEF CompareData, NoFault, Fails, Succeeds
<1>6. options.dry_run => dst' = dst
  BY <1>3 DEF Overwrites
<1> QED BY <1>1, <1>4, <1>5, <1>6 DEF Effect, CompareData

\* An action of a later phase, reduced to what it does to the destination.
LEMMA LateEffect ==
  ASSUME IInv, NEW p \in Paths, p \in todo, todo' = todo \ {p},
         UNCHANGED <<run, phase, lists, exit>>,
         phase \in ItemPhases, phase # "data",
         dst' \in Trees,
         rc' \in {rc, -1}, faults \subseteq faults', faults' \subseteq Faults,
         faults' \cap Reported # {} => rc' = -1,
         \A q \in Paths \ {p} :
            (phase = "copy" => q # Reached(dst, p)) => Data(dst'[q]) = Data(dst[q]),
         \A q \in Paths : dst'[q].type = "link"
            => dst[q].type = "link" \/ (phase = "create" /\ src_list[q].type = "link"),
         phase = "unlink_files" /\ "remove" \notin faults' /\ dst[p].type = "link"
            => dst'[p].type # "link"
  PROVE  Effect(p)
<1>1. ~options.dry_run
  BY DEF IInv, DryInv, ItemPhases
<1> QED BY <1>1 DEF Effect

LEMMA UnlinkEffect ==
  ASSUME IInv, NEW p \in Paths, Unlink(p)
  PROVE  Effect(p)
<1>1. /\ phase \in {"unlink_files", "unlink_dirs"} /\ Active /\ phase \in ItemPhases
      /\ p \in todo /\ todo' = todo \ {p}
  BY DEF Unlink, Active, ItemPhases
<1>2. /\ dst \in Trees /\ rc \in {0, -1} /\ faults \subseteq Faults
      /\ faults \cap Reported # {} => rc = -1
  BY <1>1, Listed
<1>3. rc' = rc /\ faults \subseteq faults' /\ faults' \subseteq Faults
      /\ faults' \cap Reported = faults \cap Reported
  <2>1. "remove" \notin Reported
    BY DEF Reported
  <2> QED BY <1>2, <2>1, Faulted DEF Unlink, NoFault
<1>4. CASE dst' = Removed(dst, p)
  <2>1. Absent \in Entry /\ Absent.type = "none"
    BY EntryTypes
  <2> DEFINE u == Touched([dst EXCEPT ![p] = Absent], p)
  <2>2. /\ u \in Trees /\ u[p].type = "none"
        /\ \A q \in Paths \ {p} : u[q].type = dst[q].type /\ Data(u[q]) = Data(dst[q])
    BY ONLY <1>2, <2>1, p \in Paths, PlacedTree
  <2>3. dst' = u
    BY <1>4 DEF Removed
  <2> HIDE DEF u
  <2> QED BY <1>1, <1>2, <1>3, <2>2, <2>3, LateEffect DEF Unlink
<1>5. CASE dst' = dst
  <2>1. phase = "unlink_files" /\ "remove" \notin faults' => dst[p].type # "link"
    <3>1. dst[p].type = "link" => CanRemove(dst, p)
      BY DEF CanRemove, Present, IsDir
    <3>2. dst[p].type = "link" => Removed(dst, p) # dst
      <4>1. Absent \in Entry /\ Absent.type = "none"
        BY EntryTypes
      <4>2. Touched([dst EXCEPT ![p] = Absent], p)[p].type = "none"
        BY ONLY <1>2, <4>1, p \in Paths, PlacedTree
      <4> QED BY <4>2 DEF Removed
    <3> QED BY <1>2, <1>5, <3>1, <3>2, Faulted DEF Unlink
  <2> QED BY <1>1, <1>2, <1>3, <1>5, <2>1, LateEffect DEF Unlink
<1> QED BY <1>4, <1>5 DEF Unlink

\* Creation of a directory, a file or a link under a free name.
LEMMA CreatedEffect ==
  ASSUME dst \in Trees, NEW p \in Paths, NEW i \in Items, dst' = Created(dst, p, i)
  PROVE  /\ dst' \in Trees /\ dst'[p].type = i.type
         /\ \A q \in Paths \ {p} : /\ dst'[q].type = dst[q].type
                                   /\ Data(dst'[q]) = Data(dst[q])
<1>1. i \in Entry
  BY DEF Entry
<1> DEFINE u == Touched([dst EXCEPT ![p] = i], p)
<1>2. /\ u \in Trees /\ u[p].type = i.type
      /\ \A q \in Paths \ {p} : u[q].type = dst[q].type /\ Data(u[q]) = Data(dst[q])
  BY ONLY <1>1, dst \in Trees, p \in Paths, PlacedTree
<1>3. dst' = u
  BY DEF Created
<1> HIDE DEF u
<1> QED BY <1>2, <1>3

LEMMA MakeDirectoryEffect ==
  ASSUME IInv, NEW p \in Paths, MakeDirectory(p)
  PROVE  Effect(p)
<1>1. /\ phase = "mkdir" /\ Active /\ phase \in ItemPhases
      /\ p \in todo /\ todo' = todo \ {p}
  BY DEF MakeDirectory, Active, ItemPhases
<1>2. /\ dst \in Trees /\ rc \in {0, -1} /\ faults \subseteq Faults
      /\ faults \cap Reported # {} => rc = -1
  BY <1>1, Listed
<1>3. /\ rc' \in {rc, -1} /\ faults \subseteq faults' /\ faults' \subseteq Faults
      /\ faults' \cap Reported # {} => rc' = -1
  BY <1>2, Faulted DEF MakeDirectory, NoFault, Fails, Succeeds
<1>4. CASE dst' = dst
  BY <1>1, <1>2, <1>3, <1>4, LateEffect DEF MakeDirectory
<1>5. CASE dst' = Created(dst, p, New("dir"))
  <2>1. New("dir") \in Items /\ New("dir").type = "dir"
    BY NewEntry
  <2>2. /\ dst' \in Trees /\ dst'[p].type = "dir"
        /\ \A q \in Paths \ {p} : dst'[q].type = dst[q].type /\ Data(dst'[q]) = Data(dst[q])
    BY <1>2, <1>5, <2>1, CreatedEffect
  <2> QED BY <1>1, <1>2, <1>3, <2>2, LateEffect DEF MakeDirectory
<1> QED BY <1>4, <1>5 DEF MakeDirectory

LEMMA CreateItemEffect ==
  ASSUME IInv, NEW p \in Paths, CreateItem(p)
  PROVE  Effect(p)
<1>1. /\ phase = "create" /\ Active /\ phase \in ItemPhases
      /\ p \in todo /\ todo' = todo \ {p}
  BY DEF CreateItem, Active, ItemPhases
<1>2. /\ dst \in Trees /\ rc \in {0, -1} /\ faults \subseteq Faults
      /\ faults \cap Reported # {} => rc = -1
      /\ src_list[p] \in Items
  BY <1>1, Listed DEF IInv, TodoInv
<1>3. /\ rc' \in {rc, -1} /\ faults \subseteq faults' /\ faults' \subseteq Faults
      /\ faults' \cap Reported # {} => rc' = -1
  BY <1>2, Faulted DEF CreateItem, NoFault, Fails, Succeeds
<1>4. CASE dst' = dst
  BY <1>1, <1>2, <1>3, <1>4, LateEffect DEF CreateItem
<1>5. CASE dst' = Created(dst, p, NewItem(p))
  <2>1. NewItem(p) \in Items /\ (NewItem(p).type = "link" => src_list[p].type = "link")
    <3>1. src_list[p].bytes \in Bytes /\ src_list[p].size \in Nat
      BY <1>2 DEF Items
    <3>2. New("link") \in Items /\ New("file") \in Items /\ New("file").type = "file"
      BY NewEntry
    <3> QED BY <3>1, <3>2 DEF NewItem, Items
  <2>2. /\ dst' \in Trees /\ dst'[p].type = NewItem(p).type
        /\ \A q \in Paths \ {p} : dst'[q].type = dst[q].type /\ Data(dst'[q]) = Data(dst[q])
    BY <1>2, <1>5, <2>1, CreatedEffect
  <2> QED BY <1>1, <1>2, <1>3, <2>1, <2>2, LateEffect DEF CreateItem
<1> QED BY <1>4, <1>5 DEF CreateItem

LEMMA CopyDataEffect ==
  ASSUME IInv, NEW p \in Paths, CopyData(p)
  PROVE  Effect(p)
<1>1. /\ phase = "copy" /\ Active /\ phase \in ItemPhases
      /\ p \in todo /\ todo' = todo \ {p}
  BY DEF CopyData, Active, ItemPhases
<1>2. /\ dst \in Trees /\ rc \in {0, -1} /\ faults \subseteq Faults
      /\ faults \cap Reported # {} => rc = -1
      /\ src_list[p] \in Items
  BY <1>1, Listed DEF IInv, TodoInv
<1>3. /\ rc' \in {rc, -1} /\ faults \subseteq faults' /\ faults' \subseteq Faults
      /\ faults' \cap Reported # {} => rc' = -1
  BY <1>2, Faulted DEF CopyData, NoFault, Fails, Succeeds
<1>4. dst' = dst \/ \E b \in Bytes : dst' = Filled(p, b)
  <2>1. src_list[p].bytes \in Bytes /\ "torn" \in Bytes
    BY <1>2, TreeAssumption DEF Items
  <2> QED BY <2>1 DEF CopyData
<1>5. CASE dst' = dst
  BY <1>1, <1>2, <1>3, <1>5, LateEffect DEF CopyData
<1>6. ASSUME NEW b \in Bytes, dst' = Filled(p, b)
      PROVE  Effect(p)
  <2> DEFINE q == Reached(dst, p)
  <2>1. q \in Paths
    BY ReachedPath
  <2>2. /\ dst' \in Trees
        /\ q \in Present(dst) => dst'[q].type = dst[q].type
        /\ q \notin Present(dst) => dst'[q].type = "file"
        /\ \A r \in Paths \ {q} : dst'[r].type = dst[r].type /\ Data(dst'[r]) = Data(dst[r])
    BY <1>2, <1>6, <2>1, FilledTree
  <2>3. \A r \in Paths : dst'[r].type = "link" => dst[r].type = "link"
    BY <2>1, <2>2 DEF Present
  <2>4. \A r \in Paths \ {p} :
          (phase = "copy" => r # Reached(dst, p)) => Data(dst'[r]) = Data(dst[r])
    BY <1>1, <2>2
  <2> HIDE DEF q
  <2> QED BY <1>1, <1>2, <1>3, <2>2, <2>3, <2>4, LateEffect DEF CopyData
<1> QED BY <1>4, <1>5, <1>6

\* The two phases that set permissions and times.
LEMMA SetEffect ==
  ASSUME IInv, NEW p \in Paths, src_list[p] \in Items,
         SetMetadata(p) \/ RefreshMetadata(p)
  PROVE  dst' \in Trees /\ \A q \in Paths : /\ dst'[q].type = dst[q].type
                                            /\ Data(dst'[q]) = Data(dst[q])
<1>1. dst \in Trees
  BY DEF IInv, TypeOK
<1>2. ASSUME NEW perm, NEW time, dst' = Set(p, perm, time) \/ dst' \in SetSome(p, perm, time)
      PROVE  dst' \in Trees /\ \A q \in Paths : /\ dst'[q].type = dst[q].type
                                                /\ Data(dst'[q]) = Data(dst[q])
  <2>1. PICK perm_ok, time_ok : dst' = Set(p, perm_ok, time_ok)
    BY <1>2 DEF SetSome
  <2> QED BY <1>1, <2>1, SetTree
<1>3. CASE dst' = dst
  BY <1>1, <1>3
<1>4. CASE dst' = Set(p, TRUE, TRUE) \/ dst' \in SetSome(p, TRUE, TRUE)
  BY <1>2, <1>4
<1>5. CASE \/ dst' = Set(p, PermDiffers(p), TimeDiffers(p))
           \/ dst' \in SetSome(p, PermDiffers(p), TimeDiffers(p))
  BY <1>2, <1>5
<1>6. CASE SetMetadata(p)
  BY <1>3, <1>4, <1>6 DEF SetMetadata
<1>7. CASE RefreshMetadata(p)
  BY <1>3, <1>5, <1>7 DEF RefreshMetadata
<1> QED BY <1>6, <1>7

LEMMA SetMetadataEffect ==
  ASSUME IInv, NEW p \in Paths, SetMetadata(p)
  PROVE  Effect(p)
<1>1. /\ phase \in {"meta", "meta_dirs"} /\ Active /\ phase \in ItemPhases
      /\ p \in todo /\ todo' = todo \ {p}
  BY DEF SetMetadata, Active, ItemPhases
<1>2. /\ dst \in Trees /\ rc \in {0, -1} /\ faults \subseteq Faults
      /\ faults \cap Reported # {} => rc = -1
      /\ src_list[p] \in Items
  BY <1>1, Listed DEF IInv, TodoInv
<1>3. rc' = rc /\ faults \subseteq faults' /\ faults' \subseteq Faults
      /\ faults' \cap Reported = faults \cap Reported
  <2>1. "meta" \notin Reported
    BY DEF Reported
  <2> QED BY <1>2, <2>1, Faulted DEF SetMetadata, NoFault
<1>4. dst' \in Trees /\ \A q \in Paths : dst'[q].type = dst[q].type
                                         /\ Data(dst'[q]) = Data(dst[q])
  BY <1>2, SetEffect
<1> QED BY <1>1, <1>2, <1>3, <1>4, LateEffect DEF SetMetadata

LEMMA RefreshMetadataEffect ==
  ASSUME IInv, NEW p \in Paths, RefreshMetadata(p)
  PROVE  Effect(p)
<1>1. /\ phase = "refresh" /\ Active /\ phase \in ItemPhases
      /\ p \in todo /\ todo' = todo \ {p}
  BY DEF RefreshMetadata, Active, ItemPhases
<1>2. /\ dst \in Trees /\ rc \in {0, -1} /\ faults \subseteq Faults
      /\ faults \cap Reported # {} => rc = -1
      /\ src_list[p] \in Items
  <2>1. p \in Common
    BY <1>1 DEF IInv, TodoInv, ListsInv
  <2> QED BY <1>1, <2>1, Listed
<1>3. /\ rc' \in {rc, -1} /\ faults \subseteq faults' /\ faults' \subseteq Faults
      /\ faults' \cap Reported # {} => rc' = -1
  BY <1>2, Faulted DEF RefreshMetadata, NoFault, Fails, Succeeds
<1>4. dst' \in Trees /\ \A q \in Paths : dst'[q].type = dst[q].type
                                         /\ Data(dst'[q]) = Data(dst[q])
  BY <1>2, SetEffect
<1> QED BY <1>1, <1>2, <1>3, <1>4, LateEffect DEF RefreshMetadata

LEMMA ItemEffect ==
  ASSUME IInv, NEW p \in Paths, Item(p)
  PROVE  Effect(p)
  BY CompareDataEffect, UnlinkEffect, MakeDirectoryEffect, CreateItemEffect, CopyDataEffect,
     SetMetadataEffect, RefreshMetadataEffect DEF Item

-----------------------------------------------------------------------------
(* The invariant is inductive.                                               *)

LEMMA InitInv == Init => IInv
<1> SUFFICES ASSUME Init PROVE IInv
  OBVIOUS
<1> USE DEF Init
<1>1. [p \in Paths |-> Absent] \in Trees /\ Present([p \in Paths |-> Absent]) = {}
  BY DEF Trees, Present, Absent
<1>2. dst \in Trees /\ dst0 \in Trees
  BY TreeAssumption
<1>7. runs \in 0 .. MaxRuns
  BY BoundsAssumption
<1>3. TypeOK
  BY <1>1, <1>2, <1>7 DEF TypeOK, Phases
<1>4. ListsInv /\ TodoInv /\ PassInv /\ SnapshotInv
  BY <1>1 DEF ListsInv, TodoInv, PassInv, Copying, SnapshotInv, Active
<1>5. LinkInv /\ DryInv /\ FailInv /\ FailureReported
  BY DEF LinkInv, DryInv, FailInv, FailureReported, Ended
<1>6. KeepsExtraneous
  BY DEF KeepsExtraneous
<1> QED BY <1>3, <1>4, <1>5, <1>6 DEF IInv

\* One item of a phase.
LEMMA ItemInv ==
  ASSUME IInv, NEW p \in Paths, Effect(p)
  PROVE  IInv'
<1> USE DEF Effect, run, lists, ItemPhases
<1>1. TypeOK'
  BY DEF IInv, TypeOK
<1>2. ListsInv'
  BY DEF IInv, ListsInv, Active, Present, Common
<1>3. TodoInv' /\ PassInv'
  BY DEF IInv, TodoInv, PassInv, Copying, IsFile
<1>4. SnapshotInv'
  BY DEF IInv, SnapshotInv
<1>5. LinkInv'
  <2>1. SUFFICES ASSUME faults' \cap {"remove", "walk_dst"} = {}
                 PROVE  LinkInv'
    BY DEF LinkInv
  <2>2. faults \cap {"remove", "walk_dst"} = {} /\ "remove" \notin faults'
    BY <2>1
  <2>3. ASSUME phase \in {"data", "sync"}, NEW q \in src_cp_list \cap Common, TypeDiffers(q)
        PROVE  q \in dst_remove_list
    BY <2>2, <2>3 DEF IInv, LinkInv
  <2>4. ASSUME phase \in {"unlink_files", "unlink_dirs", "mkdir", "batch", "create", "copy", "meta"},
               NEW q \in src_cp_list, IsFile(src_list, q), dst'[q].type = "link"
        PROVE  phase = "unlink_files" /\ q \in todo'
    <3>1. q \in Paths
      BY DEF IInv, TypeOK
    <3>2. dst[q].type = "link"
      BY <2>4, <3>1 DEF IsFile
    <3>3. phase = "unlink_files" /\ q \in todo
      BY <2>2, <2>4, <3>2 DEF IInv, LinkInv
    <3> QED BY <2>2, <2>4, <3>2, <3>3
  <2> QED BY <2>3, <2>4 DEF LinkInv, Common, Present, TypeDiffers, IsFile
<1>6. DryInv' /\ FailInv'
  BY DEF IInv, DryInv, FailInv
<1>7. FailureReported'
  BY DEF FailureReported, Ended
<1>8. KeepsExtraneous'
  <2>1. SUFFICES ASSUME ~options.delete, faults' \cap {"remove", "walk_dst"} = {},
                        NEW q \in Present(dst0) \ Present(src)
                 PROVE  Data(dst'[q]) = Data(dst0[q])
    BY DEF KeepsExtraneous, Present
  <2>2. Data(dst[q]) = Data(dst0[q])
    BY <2>1 DEF IInv, KeepsExtraneous
  <2>3. q # p
    BY <2>1 DEF IInv, TodoInv, ListsInv, Active, Common
  <2>4. phase = "copy" => Reached(dst, p) = p
    <3>1. phase = "copy" => p \in src_cp_list /\ IsFile(src_list, p)
      BY DEF IInv, TodoInv
    <3>2. phase = "copy" => dst[p].type # "link"
      BY <2>1, <3>1 DEF IInv, LinkInv
    <3> QED BY <3>2, ReachedPath
  <2> QED BY <2>1, <2>2, <2>3, <2>4 DEF Present
<1> QED BY <1>1, <1>2, <1>3, <1>4, <1>5, <1>6, <1>7, <1>8 DEF IInv

LEMMA StartInv == IInv /\ Start => IInv' /\ dst' = dst
<1> SUFFICES ASSUME IInv, Start PROVE IInv' /\ dst' = dst
  OBVIOUS
<1> USE DEF Start, run, lists
<1>1. phase' \in {"idle", "walk_src"} /\ todo' = todo /\ faults' = {} /\ dst0' = dst' /\ dst' = dst
  OBVIOUS
<1>2. runs' \in 0 .. MaxRuns
  BY BoundsAssumption DEF IInv, TypeOK
<1>3. TypeOK'
  BY <1>2 DEF IInv, TypeOK, Phases
<1>4. ListsInv' /\ TodoInv' /\ PassInv' /\ SnapshotInv' /\ LinkInv' /\ DryInv' /\ FailInv'
  BY <1>1 DEF IInv, ListsInv, Active, TodoInv, PassInv, Copying, SnapshotInv, LinkInv,
                DryInv, FailInv, Present
<1>5. FailureReported' /\ KeepsExtraneous'
  BY <1>1 DEF FailureReported, KeepsExtraneous
<1> QED BY <1>1, <1>3, <1>4, <1>5 DEF IInv

LEMMA WalkedTree ==
  ASSUME NEW t \in Trees, NEW lost
  PROVE  /\ Walked(t, lost) \in Trees
         /\ Present(Walked(t, lost)) \subseteq Present(t)
         /\ \A p \in Paths : /\ Walked(t, lost)[p].type \in {t[p].type, "none"}
                             /\ lost = {} => Walked(t, lost)[p].type = t[p].type
  BY DEF Walked, Trees, Present, Absent

LEMMA WalkSrcInv == IInv /\ WalkSrc => IInv' /\ dst' = dst
<1> SUFFICES ASSUME IInv, WalkSrc PROVE IInv' /\ dst' = dst
  OBVIOUS
<1> USE DEF run
<1>1. PICK lost \in Unreadable(src) :
        /\ IF lost = {} THEN NoFault ELSE Fault("walk_src")
        /\ src_list' = Walked(src, lost)
        /\ IF Root \in lost THEN phase' = "idle" /\ exit' = "1"
                            ELSE phase' = "walk_dst" /\ UNCHANGED exit
  BY DEF WalkSrc
<1>2. src_list' \in Trees /\ Present(src_list') \subseteq Present(src)
  <2>1. src \in Trees
    BY TreeAssumption DEF IInv, TypeOK
  <2>2. src_list' = Walked(src, lost) /\ Present(src_list') = Present(src_list)'
    BY <1>1 DEF Present
  <2> QED BY <1>1, <2>1, <2>2, WalkedTree
<1>3. /\ faults' \subseteq Faults /\ faults \subseteq faults'
      /\ faults' \cap Reported = faults \cap Reported
  <2>1. "walk_src" \notin Reported
    BY DEF Reported
  <2> QED BY <1>1, <2>1, Faulted DEF IInv, TypeOK
<1>4. phase' \in {"idle", "walk_dst"} /\ phase = "walk_src"
  BY <1>1 DEF WalkSrc
<1>5. TypeOK'
  BY <1>1, <1>2, <1>3, <1>4 DEF WalkSrc, IInv, TypeOK, Phases
<1>6. ListsInv' /\ TodoInv' /\ PassInv' /\ SnapshotInv' /\ LinkInv' /\ DryInv'
  BY <1>2, <1>4 DEF WalkSrc, IInv, ListsInv, Active, TodoInv, PassInv, Copying, SnapshotInv,
                    LinkInv, DryInv, Present
<1>7. FailInv' /\ FailureReported'
  BY <1>1, <1>3, <1>4 DEF WalkSrc, IInv, FailInv, FailureReported, Ended
<1>8. KeepsExtraneous'
  BY <1>3 DEF WalkSrc, IInv, KeepsExtraneous, Present
<1> QED BY <1>5, <1>6, <1>7, <1>8 DEF IInv, WalkSrc

LEMMA WalkDstInv == IInv /\ WalkDst => IInv' /\ dst' = dst
<1> SUFFICES ASSUME IInv, WalkDst PROVE IInv' /\ dst' = dst
  OBVIOUS
<1> USE DEF run
<1>1. PICK lost \in Unreadable(dst) :
        /\ IF lost = {} THEN NoFault ELSE Fault("walk_dst")
        /\ dst_list' = Walked(dst, lost)
  BY DEF WalkDst
<1>2. /\ dst_list' \in Trees
      /\ \A p \in Paths : /\ dst_list'[p].type \in {dst[p].type, "none"}
                          /\ lost = {} => dst_list'[p].type = dst[p].type
  BY <1>1, WalkedTree DEF IInv, TypeOK
<1>3. /\ faults' \subseteq Faults /\ faults \subseteq faults'
      /\ faults' \cap Reported = faults \cap Reported
      /\ "walk_dst" \notin faults' => lost = {}
  <2>1. "walk_dst" \notin Reported
    BY DEF Reported
  <2> QED BY <1>1, <2>1, Faulted DEF IInv, TypeOK
<1>4. phase' = "compare" /\ phase = "walk_dst" /\ dst' = dst
  BY DEF WalkDst
<1>5. TypeOK'
  BY <1>2, <1>3, <1>4 DEF WalkDst, IInv, TypeOK, Phases
<1>6. ListsInv' /\ TodoInv' /\ PassInv' /\ LinkInv' /\ DryInv'
  BY <1>4 DEF WalkDst, IInv, ListsInv, Active, TodoInv, PassInv, Copying, LinkInv,
                    DryInv, Present
<1>7. SnapshotInv'
  BY <1>2, <1>3, <1>4 DEF SnapshotInv
<1>8. FailInv' /\ FailureReported'
  BY <1>3, <1>4 DEF WalkDst, IInv, FailInv, FailureReported, Ended
<1>9. KeepsExtraneous'
  BY <1>3 DEF WalkDst, IInv, KeepsExtraneous, Present
<1> QED BY <1>4, <1>5, <1>6, <1>7, <1>8, <1>9 DEF IInv

LEMMA CompareInv == IInv /\ Compare => IInv' /\ dst' = dst
<1> SUFFICES ASSUME IInv, Compare PROVE IInv' /\ dst' = dst
  OBVIOUS
<1> USE DEF run
<1>1. /\ phase = "compare" /\ phase' = "data" /\ faults' = faults /\ dst' = dst
      /\ src_list' = src_list /\ dst_list' = dst_list /\ todo' = src_compare_list'
  BY DEF Compare
<1>2. /\ Present(src_list)' = Present(src_list) /\ Common' = Common
      /\ Common \subseteq Present(src_list) /\ Present(src_list) \subseteq Paths
      /\ \A p : TypeDiffers(p)' = TypeDiffers(p)
  BY <1>1 DEF Common, Present, TypeDiffers
<1>3. /\ Replaced \subseteq Common /\ CompareList \subseteq Common
      /\ OnlySrc \subseteq Present(src_list) /\ Common \cap OnlySrc = {}
      /\ \A p \in Common : TypeDiffers(p) => p \in Replaced
  BY DEF Replaced, CompareList, HaveContents, OnlySrc, Common
<1>4. /\ src_cp_list' \subseteq Present(src_list) /\ dst_remove_list' \subseteq Common
      /\ src_compare_list' \subseteq Common /\ metadata_refresh' \subseteq Common
      /\ atime_differs' \subseteq Common
      /\ \A p \in src_cp_list' \cap Common : TypeDiffers(p) => p \in dst_remove_list'
  BY <1>2, <1>3 DEF Compare
<1>5. TypeOK'
  BY <1>1, <1>2, <1>4 DEF Compare, IInv, TypeOK, Phases
<1>6. ListsInv'
  <2>1. Present(src_list)' \subseteq Present(src)'
    BY <1>2 DEF Compare, IInv, ListsInv, Present
  <2> QED BY <1>2, <1>4, <2>1 DEF ListsInv
<1>7. TodoInv' /\ PassInv' /\ DryInv'
  BY <1>1 DEF Compare, IInv, TodoInv, PassInv, Copying, DryInv
<1>8. SnapshotInv'
  BY <1>1 DEF IInv, SnapshotInv
<1>9. LinkInv'
  BY <1>1, <1>2, <1>4 DEF LinkInv
<1>10. FailInv' /\ FailureReported' /\ KeepsExtraneous'
  BY <1>1 DEF Compare, IInv, FailInv, FailureReported, Ended, KeepsExtraneous, Present
<1> QED BY <1>1, <1>5, <1>6, <1>7, <1>8, <1>9, <1>10 DEF IInv

LEMMA FinishInv ==
  ASSUME IInv, Finish, phase \in {"data", "refresh"}, UNCHANGED <<run, dst, lists, rc, faults>>
  PROVE  IInv' /\ dst' = dst
<1> USE DEF run, lists, Finish
<1>1. TypeOK'
  BY DEF IInv, TypeOK, Phases
<1>2. ListsInv' /\ TodoInv' /\ PassInv' /\ SnapshotInv' /\ LinkInv' /\ DryInv' /\ FailInv'
  BY DEF IInv, ListsInv, Active, TodoInv, PassInv, Copying, SnapshotInv, LinkInv,
                DryInv, FailInv, Present
<1>3. FailureReported' /\ KeepsExtraneous'
  BY DEF IInv, FailInv, FailureReported, KeepsExtraneous, Present
<1> QED BY <1>1, <1>2, <1>3 DEF IInv

LEMMA DataDoneInv == IInv /\ DataDone => IInv' /\ dst' = dst
<1> SUFFICES ASSUME IInv, DataDone PROVE IInv' /\ dst' = dst
  OBVIOUS
<1>1. CASE options.dry_run
  BY <1>1, FinishInv DEF DataDone
<1>2. CASE ~options.dry_run
  <2> USE DEF run, lists
  <2>1. /\ phase = "data" /\ phase' = "sync" /\ todo' = todo /\ exit' = exit
        /\ UNCHANGED <<run, dst, lists, rc, faults>>
    BY <1>2 DEF DataDone
  <2>2. TypeOK'
    BY <2>1 DEF IInv, TypeOK, Phases
  <2>3. ListsInv' /\ TodoInv' /\ PassInv' /\ SnapshotInv' /\ DryInv' /\ FailInv'
    BY <1>2, <2>1 DEF IInv, ListsInv, Active, TodoInv, PassInv, Copying, SnapshotInv, DryInv,
                      FailInv, Present, Common
  <2>4. LinkInv'
    BY <2>1 DEF IInv, LinkInv, Common, Present, TypeDiffers
  <2>5. FailureReported' /\ KeepsExtraneous'
    BY <2>1 DEF IInv, FailureReported, Ended, KeepsExtraneous, Present
  <2> QED BY <2>1, <2>2, <2>3, <2>4, <2>5 DEF IInv
<1> QED BY <1>1, <1>2

LEMMA SyncFilesInv == IInv /\ SyncFiles => IInv' /\ dst' = dst
<1> SUFFICES ASSUME IInv, SyncFiles PROVE IInv' /\ dst' = dst
  OBVIOUS
<1> USE DEF run
<1>1. /\ phase = "sync" /\ dst' = dst /\ src_list' = src_list /\ dst_list' = dst_list
      /\ src_cp_list' = src_cp_list /\ options' = options
  BY DEF SyncFiles
<1>2. /\ Present(src_list)' = Present(src_list) /\ Common' = Common
      /\ Common \subseteq Paths /\ OnlyDst \subseteq Paths
  BY <1>1 DEF Common, Present, OnlyDst
<1>3. ~options.dry_run
  BY <1>1 DEF IInv, DryInv
<1>4. CASE /\ NoFault /\ Succeeds
           /\ dst_remove_list' = dst_remove_list \cup Extraneous
           /\ phase' = "unlink_files"
           /\ todo' = {p \in dst_remove_list' : ~IsDir(dst_list, p)}
  <2>1. /\ faults' = faults /\ rc' = rc
        /\ dst_remove_list' \subseteq Paths /\ dst_remove_list \subseteq dst_remove_list'
        /\ ~options.delete => dst_remove_list' = dst_remove_list
    BY <1>2, <1>4 DEF NoFault, Succeeds, Extraneous, IInv, TypeOK
  <2>2. TypeOK'
    BY <1>4, <2>1 DEF SyncFiles, IInv, TypeOK, Phases
  <2>3. ListsInv' /\ TodoInv' /\ PassInv' /\ DryInv' /\ SnapshotInv'
    <3>1. ListsInv'
      BY <1>1, <1>2, <2>1 DEF SyncFiles, IInv, ListsInv, Active, Present
    <3> QED BY <1>3, <1>4, <3>1 DEF SyncFiles, IInv, TodoInv, PassInv, Copying, DryInv, SnapshotInv
  <2>4. LinkInv'
    <3>1. SUFFICES ASSUME faults \cap {"remove", "walk_dst"} = {}, NEW p \in src_cp_list,
                          IsFile(src_list, p), dst[p].type = "link"
                   PROVE  p \in todo'
      BY <1>1, <1>4, <2>1 DEF LinkInv, IsFile
    <3>2. p \in Present(src_list) /\ p \in Paths
      BY <1>1, <3>1 DEF IInv, TypeOK, ListsInv, Active
    <3>3. dst_list[p].type = "link"
      BY <1>1, <3>1, <3>2 DEF IInv, SnapshotInv
    <3>4. p \in Common /\ TypeDiffers(p)
      BY <3>1, <3>2, <3>3 DEF Common, Present, TypeDiffers, IsFile
    <3>5. p \in dst_remove_list
      BY <1>1, <3>1, <3>4 DEF IInv, LinkInv
    <3> QED BY <1>4, <2>1, <3>3, <3>5 DEF IsDir
  <2>5. FailInv' /\ FailureReported' /\ KeepsExtraneous'
    BY <1>1, <1>4, <2>1 DEF SyncFiles, IInv, FailInv, FailureReported, Ended, KeepsExtraneous,
                            Present
  <2> QED BY <1>1, <2>2, <2>3, <2>4, <2>5 DEF IInv
<1>5. CASE /\ Fault("check") /\ Fails
           /\ phase' = "refresh" /\ todo' = metadata_refresh
           /\ UNCHANGED dst_remove_list
  <2>1. faults' \subseteq Faults /\ faults \subseteq faults' /\ rc' = -1
    BY <1>5, Faulted DEF Fails, IInv, TypeOK
  <2>2. TypeOK'
    BY <1>5, <2>1 DEF SyncFiles, IInv, TypeOK, Phases
  <2>3. ListsInv' /\ TodoInv' /\ PassInv' /\ DryInv' /\ SnapshotInv' /\ LinkInv'
    <3>1. ListsInv'
      BY <1>1, <1>2, <1>5 DEF SyncFiles, IInv, ListsInv, Active, Present
    <3> QED BY <1>3, <1>5, <3>1 DEF SyncFiles, IInv, TodoInv, PassInv, Copying, DryInv,
                                      SnapshotInv, LinkInv
  <2>4. FailInv' /\ FailureReported' /\ KeepsExtraneous'
    BY <1>1, <1>5, <2>1 DEF SyncFiles, IInv, FailInv, FailureReported, Ended, KeepsExtraneous,
                            Present
  <2> QED BY <1>1, <2>2, <2>3, <2>4 DEF IInv
<1> QED BY <1>4, <1>5 DEF SyncFiles

\* What a barrier and the choice of a batch leave as it was.
PlanUnchanged ==
    UNCHANGED <<run, dst, src_list, dst_list, src_cp_list, dst_remove_list,
                src_compare_list, metadata_refresh, atime_differs, rc, exit, faults>>

\* Going on to the items of another phase of the synchronisation.
LEMMA PhaseInv ==
  ASSUME IInv, PlanUnchanged, NEW ph, phase' = ph, todo' \subseteq Paths,
         phase \notin {"idle", "walk_src", "walk_dst", "compare", "data", "sync"},
         ph \in {"unlink_dirs", "mkdir", "batch", "create", "copy", "meta", "meta_dirs", "refresh"},
         phase = "unlink_files" => todo = {} /\ ph = "unlink_dirs",
         ph \in {"unlink_dirs", "mkdir", "batch", "create", "copy", "meta"} =>
            phase \in {"unlink_files", "unlink_dirs", "mkdir", "batch", "create", "copy", "meta"},
         TodoInv', PassInv'
  PROVE  IInv' /\ dst' = dst
<1> USE DEF run, PlanUnchanged
<1>1. TypeOK'
  <2>1. src_cp_list \subseteq Paths
    BY DEF IInv, TypeOK
  <2>2. left' \subseteq Paths /\ batch' \subseteq Paths
    BY <2>1 DEF PassInv
  <2> QED BY <2>2 DEF IInv, TypeOK, Phases
<1>2. ListsInv'
  BY DEF IInv, ListsInv, Active, Present, Common
<1>3. SnapshotInv'
  BY DEF SnapshotInv
<1>4. LinkInv'
  <2>1. ASSUME faults \cap {"remove", "walk_dst"} = {}, NEW p \in src_cp_list,
               ph \in {"unlink_dirs", "mkdir", "batch", "create", "copy", "meta"}
        PROVE  ~(IsFile(src_list, p) /\ dst[p].type = "link")
    BY <2>1 DEF IInv, LinkInv
  <2> QED BY <2>1 DEF LinkInv, IsFile
<1>5. DryInv' /\ FailInv'
  BY DEF IInv, DryInv, FailInv
<1>6. FailureReported' /\ KeepsExtraneous'
  BY DEF IInv, FailureReported, Ended, KeepsExtraneous, Present
<1> QED BY <1>1, <1>2, <1>3, <1>4, <1>5, <1>6 DEF IInv

LEMMA BarrierInv == IInv /\ Barrier => IInv' /\ dst' = dst
<1> SUFFICES ASSUME IInv, Barrier PROVE IInv' /\ dst' = dst
  OBVIOUS
<1>1. /\ phase \in {"unlink_files", "unlink_dirs", "mkdir", "create", "copy", "meta", "meta_dirs"}
      /\ todo = {} /\ todo' = ItemsOf(phase') /\ PlanUnchanged
      /\ left' = (IF phase = "mkdir" THEN src_cp_list ELSE left)
      /\ batch' = (IF phase = "meta" THEN {} ELSE batch)
  BY DEF Barrier, Follows, PlanUnchanged
<1>2. /\ phase' \in {"unlink_dirs", "mkdir", "batch", "copy", "meta", "refresh"}
      /\ phase = "unlink_files" => phase' = "unlink_dirs"
      /\ phase = "unlink_dirs" => phase' = "mkdir"
      /\ phase \in {"mkdir", "meta"} => phase' = "batch"
      /\ phase = "create" => phase' = "copy"
      /\ phase = "copy" => phase' = "meta"
      /\ phase = "meta_dirs" => phase' = "refresh"
  BY <1>1 DEF Barrier, Follows
<1>3. /\ phase' = "unlink_dirs" => todo' \subseteq dst_remove_list
      /\ phase' = "mkdir" => todo' \subseteq src_cp_list
      /\ phase' \in {"copy", "meta"} => todo' \subseteq batch
      /\ phase' = "copy" => \A p \in todo' : IsFile(src_list, p)
      /\ phase' = "batch" => todo' = {}
      /\ phase' = "refresh" => todo' \subseteq metadata_refresh
  BY <1>1, <1>2 DEF ItemsOf
<1>4. /\ src_cp_list' = src_cp_list /\ src_list' = src_list /\ metadata_refresh' = metadata_refresh
      /\ dst_remove_list' = dst_remove_list /\ options' = options
  BY <1>1 DEF PlanUnchanged, run
<1>5. PassInv'
  BY <1>1, <1>2, <1>3, <1>4 DEF IInv, PassInv, Copying
<1>6. TodoInv'
  BY <1>1, <1>2, <1>3, <1>4 DEF IInv, TodoInv, PassInv, Copying, IsFile
<1>7. todo' \subseteq Paths
  BY <1>2, <1>3 DEF IInv, TypeOK
<1> HIDE DEF PassInv, TodoInv
<1> QED BY <1>1, <1>2, <1>5, <1>6, <1>7, PhaseInv

LEMMA NextBatchInv == IInv /\ NextBatch => IInv' /\ dst' = dst
<1> SUFFICES ASSUME IInv, NextBatch PROVE IInv' /\ dst' = dst
  OBVIOUS
<1>1. phase = "batch" /\ PlanUnchanged
  BY DEF NextBatch, PlanUnchanged
<1>2. /\ src_cp_list' = src_cp_list /\ src_list' = src_list /\ metadata_refresh' = metadata_refresh
      /\ src_cp_list \subseteq Paths /\ metadata_refresh \subseteq Paths /\ options' = options
  BY <1>1 DEF PlanUnchanged, IInv, TypeOK, run
<1>3. ASSUME left # {}, NEW b \in Batches, left' = left \ b, batch' = OfBatch(b),
             phase' = (IF batch' = {} THEN "batch" ELSE "create"),
             todo' = {p \in batch' : ~IsDir(src_list, p)}
      PROVE  IInv' /\ dst' = dst
  <2>1. batch' \subseteq b /\ b \subseteq left /\ left \subseteq src_cp_list
    BY <1>1, <1>3 DEF Batches, OfBatch, IInv, PassInv, Copying
  <2>2. phase' \in {"batch", "create"} /\ todo' \subseteq batch' /\ (batch' = {} => todo' = {})
    BY <1>3
  <2>3. PassInv'
    <3>1. options.batch_files = 0 => batch' = src_cp_list /\ left' = {}
      BY <1>1, <1>3 DEF Batches, OfBatch, IInv, PassInv
    <3> QED BY <1>2, <1>3, <2>1, <2>2, <3>1 DEF PassInv, Copying
  <2>4. TodoInv'
    BY <1>2, <1>3, <2>1, <2>2 DEF TodoInv
  <2>5. todo' \subseteq Paths
    BY <1>2, <2>1, <2>2
  <2> QED BY <1>1, <2>2, <2>3, <2>4, <2>5, PhaseInv
<1>4. CASE /\ left = {}
           /\ phase' = IF options.batch_files = 0 THEN "refresh" ELSE "meta_dirs"
           /\ todo' = ItemsOf(phase')
           /\ UNCHANGED <<left, batch>>
  <2>1. phase' \in {"refresh", "meta_dirs"}
    BY <1>4
  <2>2. /\ phase' = "meta_dirs" => todo' \subseteq src_cp_list
        /\ phase' = "refresh" => todo' \subseteq metadata_refresh
    BY <1>4, <2>1 DEF ItemsOf
  <2>3. PassInv'
    BY <1>1, <1>4, <2>1 DEF IInv, PassInv, TodoInv, Copying
  <2>4. TodoInv'
    BY <1>2, <2>1, <2>2 DEF TodoInv
  <2>5. todo' \subseteq Paths
    BY <1>2, <2>1, <2>2
  <2> QED BY <1>1, <2>1, <2>3, <2>4, <2>5, PhaseInv
<1> QED BY <1>3, <1>4 DEF NextBatch

LEMMA DoneInv == IInv /\ Done => IInv' /\ dst' = dst
  BY FinishInv DEF Done

LEMMA CrashInv == IInv /\ Crash => IInv' /\ (options.dry_run => dst' = dst)
<1> SUFFICES ASSUME IInv, Crash PROVE IInv' /\ (options.dry_run => dst' = dst)
  OBVIOUS
<1> USE DEF run, lists
<1>1. /\ phase # "idle" /\ phase' = "idle" /\ todo' = {} /\ exit' = "killed"
      /\ UNCHANGED <<run, src_list, dst_list, src_cp_list, dst_remove_list, src_compare_list,
                     metadata_refresh, atime_differs, rc, faults>>
      /\ left' = {} /\ batch' = {}
  BY DEF Crash
<1>2. /\ dst' \in Trees
      /\ options.dry_run => dst' = dst
      /\ \A q \in Paths : q \notin Present(src) /\ ~options.delete => Data(dst'[q]) = Data(dst[q])
  <2>0. dst \in Trees
    BY DEF IInv, TypeOK
  <2>1. CASE dst' = dst
    BY <2>0, <2>1
  <2>2. ASSUME phase = "copy", NEW p \in todo, IsFile(dst, p), dst' = Filled(p, "torn")
        PROVE  <1>2!1 /\ <1>2!2 /\ <1>2!3
    <3>1. /\ p \in Paths /\ p \in Present(src) /\ src_list[p] \in Items
      <4>1. p \in src_cp_list /\ p \in Paths /\ Active
        BY <2>2 DEF IInv, TypeOK, TodoInv, Active
      <4>2. src_list[p] \in Items
        BY <4>1, Listed
      <4> QED BY <4>1, <4>2 DEF IInv, ListsInv
    <3>2. p = Reached(dst, p) /\ p \in Present(dst)
      BY <2>2, <3>1 DEF Reached, IsFile, Present
    <3>3. /\ dst' \in Trees
          /\ \A q \in Paths \ {p} : Data(dst'[q]) = Data(dst[q])
      <4>1. "torn" \in Bytes
        BY TreeAssumption
      <4>2. /\ Filled(p, "torn") \in Trees
            /\ \A r \in Paths \ {p} : /\ Filled(p, "torn")[r].type = dst[r].type
                                      /\ Data(Filled(p, "torn")[r]) = Data(dst[r])
        BY ONLY <2>0, <3>1, <3>2, <4>1, FilledTree
      <4> QED BY <2>2, <4>2
    <3>4. ~options.dry_run
      BY <2>2 DEF IInv, DryInv
    <3> QED BY <3>1, <3>3, <3>4
  <2>3. ASSUME phase = "data", Overwrites, NEW p \in todo, dst' = Overwritten(p, "torn")
        PROVE  <1>2!1 /\ <1>2!2 /\ <1>2!3
    <3>1. p \in Paths /\ p \in Present(src) /\ dst[p] \in Items
      <4>1. p \in Common /\ p \in Paths
        BY <2>3 DEF IInv, TypeOK, TodoInv, ListsInv, Active
      <4>2. dst[p].type # "none"
        BY <2>3, <4>1 DEF IInv, SnapshotInv, Common, Present
      <4> QED BY <2>0, <4>1, <4>2 DEF IInv, ListsInv, Common, Trees, Absent
    <3>2. /\ dst' \in Trees
          /\ \A q \in Paths \ {p} : dst'[q] = dst[q]
      BY <2>0, <2>3, <3>1, TreeAssumption, OverwrittenTree
    <3> QED BY <2>3, <3>1, <3>2 DEF Overwrites
  <2> QED BY <2>1, <2>2, <2>3 DEF Crash
<1>3. TypeOK'
  BY <1>1, <1>2 DEF IInv, TypeOK, Phases
<1>4. ListsInv' /\ TodoInv' /\ PassInv' /\ SnapshotInv' /\ LinkInv' /\ DryInv' /\ FailInv'
  BY <1>1 DEF IInv, ListsInv, Active, TodoInv, PassInv, Copying, SnapshotInv, LinkInv, DryInv,
                FailInv, Present
<1>5. FailureReported'
  BY <1>1 DEF FailureReported
<1>6. KeepsExtraneous'
  BY <1>1, <1>2 DEF IInv, KeepsExtraneous, Present
<1> QED BY <1>2, <1>3, <1>4, <1>5, <1>6 DEF IInv

LEMMA StutterInv == IInv /\ UNCHANGED vars => IInv'
<1> SUFFICES ASSUME IInv, UNCHANGED vars PROVE IInv'
  OBVIOUS
<1> USE DEF vars, lists
<1>1. TypeOK' /\ ListsInv' /\ TodoInv' /\ PassInv' /\ SnapshotInv'
  BY DEF IInv, TypeOK, ListsInv, TodoInv, PassInv, Copying, SnapshotInv, Active,
         Present, Common, IsFile
<1>2. LinkInv' /\ DryInv' /\ FailInv' /\ FailureReported' /\ KeepsExtraneous'
  BY DEF IInv, LinkInv, DryInv, FailInv, FailureReported, KeepsExtraneous, Ended, Present,
         Common, TypeDiffers, IsFile
<1> QED BY <1>1, <1>2 DEF IInv

LEMMA NextInv == IInv /\ [Next]_vars => IInv' /\ (options.dry_run => dst' = dst)
<1> SUFFICES ASSUME IInv, [Next]_vars PROVE IInv' /\ (options.dry_run => dst' = dst)
  OBVIOUS
<1>1. ASSUME NEW p \in Paths, Item(p) PROVE IInv' /\ (options.dry_run => dst' = dst)
  <2>1. Effect(p)
    BY <1>1, ItemEffect
  <2> QED BY <2>1, ItemInv DEF Effect
<1>2. CASE UNCHANGED vars
  BY <1>2, StutterInv DEF vars
<1> QED BY <1>1, <1>2, StartInv, WalkSrcInv, WalkDstInv, CompareInv, DataDoneInv, SyncFilesInv,
           BarrierInv, NextBatchInv, DoneInv, CrashInv DEF Next, Step

\* The inductive invariant holds in every run.
THEOREM Inductive == Spec => []IInv
  BY InitInv, NextInv, PTL DEF Spec

-----------------------------------------------------------------------------
(* What follows from it.                                                     *)

\* The lists, trees and codes of a run are of their types.
THEOREM TypeCorrect == Spec => []TypeOK
<1>1. IInv => TypeOK
  BY DEF IInv
<1> QED BY <1>1, Inductive, PTL

\* Whatever fails in a phase that returns a code is reported in the exit status.
THEOREM FailuresAreReported == Spec => []FailureReported
<1>1. IInv => FailureReported
  BY DEF IInv
<1> QED BY <1>1, Inductive, PTL

\* Without --delete, whatever only the destination has keeps its type and bytes, in
\* trees of every shape, while a run goes on, after it, and if it is killed.
THEOREM ExtraneousAreKept == Spec => []KeepsExtraneous
<1>1. IInv => KeepsExtraneous
  BY DEF IInv
<1> QED BY <1>1, Inductive, PTL

\* A dry run changes nothing.
THEOREM DryRunIsSafe == Spec => DryRunNonMutating
<1>1. IInv /\ [Next]_vars => [options.dry_run => UNCHANGED dst]_vars
  BY NextInv
<1> QED BY <1>1, Inductive, PTL DEF Spec, DryRunNonMutating

-----------------------------------------------------------------------------
(* Convergence: what a run without failures leaves at the destination, for    *)
(* any trees, options and history of earlier runs.                            *)

-----------------------------------------------------------------------------
(* What each action does to the entries of the destination.                  *)

\* An entry that has only got the time of a change.
Dated(i, j) ==
    i.type = j.type /\ i.size = j.size /\ i.bytes = j.bytes /\ i.perm = j.perm /\ i.mtime = Now

\* All entries of t but that of p are u's, except directories that were touched.
Others(t, u, p) ==
    \A q \in Paths \ {p} : t[q] = u[q] \/ (u[q].type = "dir" /\ Dated(t[q], u[q]))

Written(i, n, b) == i.type = "file" /\ i.size = n /\ i.bytes = b /\ i.mtime = Now

\* A step of one item.
Advance(p) ==
    /\ p \in todo /\ todo' = todo \ {p}
    /\ UNCHANGED <<run, phase, lists, exit>>
    /\ rc' \in {rc, -1} /\ faults \subseteq faults'

UnlinkDoes(p) ==
    /\ phase \in {"unlink_files", "unlink_dirs"} /\ (phase = "unlink_dirs" => Deepest(p))
    /\ rc' = rc
    /\ \/ CanRemove(dst, p) /\ dst'[p] = Absent /\ Others(dst', dst, p)
       \/ dst' = dst /\ (faults' = {} => ~CanRemove(dst, p))

MakeDoes(p) ==
    /\ phase = "mkdir"
    /\ \/ CanCreate(dst, p) /\ dst'[p] = New("dir") /\ Others(dst', dst, p)
       \/ dst' = dst /\ (rc' = 0 => SkipsRoot(p) \/ p \in Present(dst))

CreateDoes(p) ==
    /\ phase = "create"
    /\ \/ CanCreate(dst, p) /\ dst'[p] = NewItem(p) /\ Others(dst', dst, p)
       \/ dst' = dst /\ (rc' = 0 => p \in Present(dst))

OverwriteDoes(p) ==
    /\ phase = "data"
    /\ \A q \in Paths \ {p} : dst'[q] = dst[q]
    /\ \/ /\ dst'[p].type = dst[p].type /\ dst'[p].size = dst[p].size
          /\ dst'[p].perm = dst[p].perm /\ dst'[p].mtime = Now
          /\ faults' = {} => dst'[p].bytes = src_list[p].bytes
       \/ /\ dst' = dst
          /\ faults' = {} /\ ~options.dry_run => dst[p].bytes = src_list[p].bytes

CopyDoes(p) ==
    LET q == Reached(dst, p)
    IN  /\ phase = "copy"
        /\ \/ /\ IsFile(dst, q) \/ CanCreate(dst, q)
              /\ Others(dst', dst, q)
              /\ \E b \in Bytes : Written(dst'[q], src_list[p].size, b)
              /\ faults' = {} => dst'[q].bytes = src_list[p].bytes
           \/ /\ dst' = dst
              /\ faults' = {} => ~IsFile(dst, q)
              /\ faults' = {} /\ rc' = 0 => dst[q].type = "link"

\* perm and time are what is wanted; what is not may stay as it is only by a failure.
SetDoes(p, perm, time) ==
    /\ \A q \in Paths :
         /\ dst'[q].type = dst[q].type /\ dst'[q].size = dst[q].size
         /\ dst'[q].bytes = dst[q].bytes
         /\ dst'[q].mtime = dst[q].mtime \/ (q = p /\ time /\ p \in Present(dst)
                                               /\ dst'[q].mtime = Stored(src_list[p].mtime))
         /\ dst'[q].perm = dst[q].perm \/ (q = Reached(dst, p) /\ perm /\ src_list[p].type # "link"
                                             /\ dst'[q].perm = src_list[p].perm)
    /\ faults' = {} /\ p \in Present(dst) =>
         /\ time => dst'[p].mtime = Stored(src_list[p].mtime)
         /\ perm /\ src_list[p].type # "link" /\ dst[p].type # "link"
              => dst'[p].perm = src_list[p].perm

-----------------------------------------------------------------------------

\* A failure leaves its kind behind.
LEMMA FaultSeen == \A kind : Fault(kind) => faults' # {} /\ faults \subseteq faults'
  BY DEF Fault

LEMMA TouchedOthers ==
  ASSUME NEW t \in Trees, NEW p \in Paths, NEW i \in Entry,
         p # Root => t[ParentOf[p]].type = "dir"
  PROVE  LET u == Touched([t EXCEPT ![p] = i], p)
         IN  u[p] = i /\ Others(u, t, p)
<1> DEFINE v == [t EXCEPT ![p] = i]
           u == Touched(v, p)
<1> SUFFICES u[p] = i /\ Others(u, t, p)
  OBVIOUS
<1>1. v \in Trees /\ v[p] = i /\ \A q \in Paths \ {p} : v[q] = t[q]
  BY DEF Trees, Entry
<1>2. CASE p = Root
  BY <1>1, <1>2 DEF Touched, Others
<1>3. CASE p # Root
  <2> DEFINE r == ParentOf[p]
             e == [v[r] EXCEPT !.mtime = Now]
  <2>1. r \in Paths /\ r # p
    BY <1>3, TreeAssumption
  <2>2. v[r] = t[r] /\ t[r].type = "dir" /\ t[r] \in Items
    BY <1>1, <1>3, <2>1 DEF Trees, Absent
  <2>3. Dated(e, t[r])
    <3>1. t[r] \in [type : {"dir", "file", "link"}, size : Nat, bytes : Bytes,
                    mtime : Nat \X Nat, perm : Nat]
      BY <2>2 DEF Items
    <3>2. e = [t[r] EXCEPT !.mtime = Now]
      BY <2>2
    <3> HIDE DEF e
    <3> HIDE DEF r
    <3> QED BY <3>1, <3>2 DEF Dated
  <2>4. u = [v EXCEPT ![r] = e]
    BY <1>1, <1>3, <2>1 DEF Touched, Trees
  <2> HIDE DEF e, r, v, u
  <2>5. u[r] = e /\ \A q \in Paths \ {r} : u[q] = v[q]
    BY <1>1, <2>1, <2>4 DEF Trees
  <2> QED BY <1>1, <2>1, <2>2, <2>3, <2>5 DEF Others
<1> QED BY <1>2, <1>3

LEMMA UnlinkFields ==
  ASSUME IInv, InDirectories(dst), NEW p \in Paths, Unlink(p)
  PROVE  Advance(p) /\ UnlinkDoes(p)
<1>1. Advance(p) /\ phase \in {"unlink_files", "unlink_dirs"}
      /\ (phase = "unlink_dirs" => Deepest(p)) /\ rc' = rc
  BY FaultSeen DEF Unlink, Advance, NoFault
<1>2. CASE CanRemove(dst, p) /\ dst' = Removed(dst, p)
  <2>1. dst \in Trees /\ Absent \in Entry
    BY EntryTypes DEF IInv, TypeOK
  <2>2. p # Root => dst[ParentOf[p]].type = "dir"
    BY <1>2 DEF InDirectories, CanRemove, Present
  <2>3. dst'[p] = Absent /\ Others(dst', dst, p)
    BY <1>2, <2>1, <2>2, TouchedOthers DEF Removed
  <2> QED BY <1>1, <1>2, <2>3 DEF UnlinkDoes
<1>3. CASE dst' = dst /\ (faults' = {} => ~CanRemove(dst, p))
  BY <1>1, <1>3 DEF UnlinkDoes
<1>4. \/ dst' = dst /\ (faults' = {} => ~CanRemove(dst, p))
      \/ CanRemove(dst, p) /\ dst' = Removed(dst, p)
  BY FaultSeen DEF Unlink
<1> QED BY <1>2, <1>3, <1>4

LEMMA CreatedFields ==
  ASSUME dst \in Trees, NEW p \in Paths, CanCreate(dst, p), NEW i \in Items,
         dst' = Created(dst, p, i)
  PROVE  dst'[p] = i /\ Others(dst', dst, p)
<1>1. i \in Entry /\ (p # Root => dst[ParentOf[p]].type = "dir")
  BY DEF Entry, CanCreate, ParentIsDir, IsDir
<1> QED BY <1>1, TouchedOthers DEF Created

LEMMA MakeFields ==
  ASSUME IInv, NEW p \in Paths, MakeDirectory(p)
  PROVE  Advance(p) /\ MakeDoes(p)
<1>1. Advance(p) /\ phase = "mkdir"
  BY FaultSeen DEF MakeDirectory, Advance, NoFault, Fails, Succeeds
<1>2. \/ CanCreate(dst, p) /\ dst' = Created(dst, p, New("dir"))
      \/ dst' = dst /\ (rc' = 0 => SkipsRoot(p) \/ p \in Present(dst))
  BY DEF MakeDirectory, Fails
<1>3. dst \in Trees /\ New("dir") \in Items
  BY NewEntry DEF IInv, TypeOK
<1> QED BY <1>1, <1>2, <1>3, CreatedFields DEF MakeDoes

LEMMA CreateFields ==
  ASSUME IInv, NEW p \in Paths, CreateItem(p)
  PROVE  Advance(p) /\ CreateDoes(p)
<1>1. Advance(p) /\ phase = "create"
  BY FaultSeen DEF CreateItem, Advance, NoFault, Fails, Succeeds
<1>2. \/ CanCreate(dst, p) /\ dst' = Created(dst, p, NewItem(p))
      \/ dst' = dst /\ (rc' = 0 => p \in Present(dst))
  BY DEF CreateItem, Fails
<1>3. dst \in Trees /\ NewItem(p) \in Items
  <2>1. src_list[p] \in Items /\ dst \in Trees
    <3>1. p \in src_cp_list /\ Active
      BY <1>1 DEF IInv, TodoInv, Advance, Active
    <3> QED BY <3>1, Listed
  <2>2. src_list[p].bytes \in Bytes /\ src_list[p].size \in Nat
    BY <2>1 DEF Items
  <2>3. New("link") \in Items /\ New("file") \in Items
    BY NewEntry
  <2> QED BY <2>1, <2>2, <2>3 DEF NewItem, Items
<1> QED BY <1>1, <1>2, <1>3, CreatedFields DEF CreateDoes

LEMMA OverwriteFields ==
  ASSUME IInv, NEW p \in Paths, CompareData(p)
  PROVE  Advance(p) /\ OverwriteDoes(p)
<1>1. Advance(p) /\ phase = "data"
  BY FaultSeen DEF CompareData, Advance, NoFault, Fails, Succeeds
<1>2. dst \in Trees /\ dst[p] \in Items
  <2>1. p \in Common
    BY <1>1 DEF IInv, TodoInv, ListsInv, Advance, Active
  <2> QED BY <1>1, <2>1 DEF IInv, TypeOK, SnapshotInv, Common, Present, Trees, Absent
<1>3. ASSUME NEW b, dst' = Overwritten(p, b)
      PROVE  /\ \A q \in Paths \ {p} : dst'[q] = dst[q]
             /\ dst'[p].type = dst[p].type /\ dst'[p].size = dst[p].size
             /\ dst'[p].perm = dst[p].perm /\ dst'[p].mtime = Now /\ dst'[p].bytes = b
  <2> DEFINE i == [dst[p] EXCEPT !.bytes = b, !.mtime = Now]
  <2>1. dst' = [dst EXCEPT ![p] = i]
    BY <1>2, <1>3 DEF Overwritten, Trees
  <2>2. /\ i.type = dst[p].type /\ i.size = dst[p].size /\ i.perm = dst[p].perm
        /\ i.mtime = Now /\ i.bytes = b
    BY <1>2 DEF Items
  <2> HIDE DEF i
  <2> QED BY <1>2, <2>1, <2>2 DEF Trees
<1>4. \/ dst' = dst /\ (faults' = {} /\ ~options.dry_run => dst[p].bytes = src_list[p].bytes)
      \/ dst' = Overwritten(p, src_list[p].bytes)
      \/ dst' = Overwritten(p, "torn") /\ faults' # {}
  BY FaultSeen DEF CompareData, Overwrites
<1> QED BY <1>1, <1>3, <1>4 DEF OverwriteDoes

\* A file that is opened and written.
LEMMA FilledFields ==
  ASSUME dst \in Trees, NEW p \in Paths, NEW b \in Bytes, src_list[p] \in Items,
         NEW q \in Paths, q = Reached(dst, p), IsFile(dst, q) \/ CanCreate(dst, q),
         NEW u, u = Filled(p, b)
  PROVE  Others(u, dst, q) /\ Written(u[q], src_list[p].size, b)
<1> DEFINE file == IF q \in Present(dst) THEN dst[q] ELSE New("file")
           full == [file EXCEPT !.bytes = b, !.size = src_list[p].size, !.mtime = Now]
<1>1. file \in Items /\ file.type = "file"
  BY NewEntry DEF Present, Trees, Absent, CanCreate, IsFile
<1>2. src_list[p].size \in Nat
  BY DEF Items
<1> HIDE DEF file
<1>3. full \in Items /\ Written(full, src_list[p].size, b)
  <2>1. full \in Items /\ full.type = "file"
    BY <1>1, <1>2, WrittenEntry, ZenonT(30)
  <2>2. full.size = src_list[p].size /\ full.bytes = b /\ full.mtime = Now
    BY <1>1 DEF Items
  <2> QED BY <2>1, <2>2 DEF Written
<1>4. u = IF q \in Present(dst) THEN [dst EXCEPT ![q] = full] ELSE Created(dst, q, full)
  BY DEF Filled, file
<1> HIDE DEF full
<1>5. CASE q \in Present(dst)
  BY <1>3, <1>4, <1>5 DEF Trees, Others
<1>6. CASE q \notin Present(dst)
  <2>1. CanCreate(dst, q)
    BY <1>6 DEF IsFile, Present
  <2>2. full \in Entry /\ (q # Root => dst[ParentOf[q]].type = "dir")
    BY <1>3, <2>1 DEF Entry, CanCreate, ParentIsDir, IsDir
  <2>3. u = Touched([dst EXCEPT ![q] = full], q)
    BY <1>4, <1>6 DEF Created
  <2>4. u[q] = full /\ Others(u, dst, q)
    BY ONLY dst \in Trees, q \in Paths, <2>2, <2>3, TouchedOthers
  <2> QED BY <1>3, <2>4
<1> QED BY <1>5, <1>6

LEMMA CopyFields ==
  ASSUME IInv, NEW p \in Paths, CopyData(p)
  PROVE  Advance(p) /\ CopyDoes(p)
<1>1. Advance(p) /\ phase = "copy"
  BY FaultSeen DEF CopyData, Advance, NoFault, Fails, Succeeds
<1>2. dst \in Trees /\ src_list[p] \in Items
  <2>1. p \in src_cp_list /\ Active
    BY <1>1 DEF IInv, TodoInv, Advance, Active
  <2> QED BY <2>1, Listed
<1> DEFINE q == Reached(dst, p)
           opens == IsFile(dst, q) \/ CanCreate(dst, q)
<1>3. q \in Paths
  BY ReachedPath
<1>4. \/ opens /\ dst' = Filled(p, src_list[p].bytes)
      \/ opens /\ dst' = Filled(p, "torn") /\ faults' # {}
      \/ opens /\ dst' = dst /\ faults' # {}
      \/ ~opens /\ dst' = dst /\ rc' = -1
      \/ dst[q].type = "link" /\ dst' = dst
  BY FaultSeen DEF CopyData, Fails
<1>5. ASSUME NEW b \in Bytes, opens, dst' = Filled(p, b)
      PROVE  Others(dst', dst, q) /\ Written(dst'[q], src_list[p].size, b)
  BY <1>2, <1>3, <1>5, FilledFields
<1>6. src_list[p].bytes \in Bytes /\ "torn" \in Bytes
  BY <1>2, TreeAssumption DEF Items
<1>7. CASE opens /\ dst' = Filled(p, src_list[p].bytes)
  <2>1. Others(dst', dst, q) /\ Written(dst'[q], src_list[p].size, src_list[p].bytes)
    BY <1>5, <1>6, <1>7
  <2>2. dst'[q].bytes = src_list[p].bytes
    BY <2>1 DEF Written
  <2> QED BY <1>1, <1>6, <1>7, <2>1, <2>2 DEF CopyDoes
<1>8. CASE opens /\ dst' = Filled(p, "torn") /\ faults' # {}
  <2>1. Others(dst', dst, q) /\ Written(dst'[q], src_list[p].size, "torn")
    BY <1>5, <1>6, <1>8
  <2> QED BY <1>1, <1>6, <1>8, <2>1 DEF CopyDoes
<1>9. CASE dst' = dst /\ (faults' # {} \/ (~opens /\ rc' = -1) \/ dst[q].type = "link")
  BY <1>1, <1>9 DEF CopyDoes, IsFile
<1> QED BY <1>4, <1>7, <1>8, <1>9

\* The metadata of an item is set, or some of it.
LEMMA SetFields ==
  ASSUME dst \in Trees, NEW p \in Paths, src_list[p] \in Items, p \in Present(dst),
         NEW perm \in BOOLEAN, NEW time \in BOOLEAN,
         \/ dst' = Set(p, perm, time)
         \/ dst' \in SetSome(p, perm, time) /\ faults' # {}
  PROVE  SetDoes(p, perm, time)
<1> DEFINE r == Reached(dst, p)
<1>1. PICK pe \in BOOLEAN, ti \in BOOLEAN :
         /\ dst' = Set(p, pe, ti)
         /\ (pe => perm) /\ (ti => time)
         /\ faults' = {} => (perm => pe) /\ (time => ti)
  BY DEF SetSome
<1> DEFINE t == IF pe THEN WithPerm(dst, p) ELSE dst
<1>2. r \in Paths /\ (dst[p].type # "link" => r = p)
  BY ReachedPath
<1>3. /\ t \in Trees
      /\ \A q \in Paths :
           /\ t[q].type = dst[q].type /\ t[q].size = dst[q].size
           /\ t[q].bytes = dst[q].bytes /\ t[q].mtime = dst[q].mtime
           /\ \/ t[q].perm = dst[q].perm
              \/ q = r /\ pe /\ src_list[p].type # "link" /\ t[q].perm = src_list[p].perm
      /\ pe /\ src_list[p].type # "link" /\ dst[p].type # "link" => t[p].perm = src_list[p].perm
  <2>1. CASE pe /\ src_list[p].type # "link" /\ r \in Present(dst) /\ dst[r].type # "link"
    <3> DEFINE i == [dst[r] EXCEPT !.perm = src_list[p].perm]
    <3>1. dst[r] \in Items /\ src_list[p].perm \in Nat
      BY <1>2, <2>1 DEF Present, Trees, Absent, Items
    <3>2. /\ i \in Items /\ i.type = dst[r].type /\ i.size = dst[r].size
          /\ i.bytes = dst[r].bytes /\ i.mtime = dst[r].mtime /\ i.perm = src_list[p].perm
      BY <3>1 DEF Items
    <3>3. t = [dst EXCEPT ![r] = i]
      BY <1>2, <2>1 DEF WithPerm, Trees
    <3> HIDE DEF i, t, r
    <3>4. t \in Trees /\ t[r] = i /\ \A q \in Paths \ {r} : t[q] = dst[q]
      BY <1>2, <3>2, <3>3 DEF Trees
    <3> QED BY <1>2, <2>1, <3>2, <3>4
  <2>2. CASE ~(pe /\ src_list[p].type # "link" /\ r \in Present(dst) /\ dst[r].type # "link")
    BY <1>2, <2>2 DEF WithPerm
  <2> QED BY <2>1, <2>2
<1>4. dst' = IF ti THEN WithTime(t, p) ELSE t
  BY <1>1 DEF Set
<1> HIDE DEF t
<1>5. CASE ~ti
  BY <1>1, <1>2, <1>3, <1>4, <1>5 DEF SetDoes
<1>6. CASE ti
  <2> DEFINE e == [t[p] EXCEPT !.mtime = Stored(src_list[p].mtime)]
  <2>1. t[p] \in Items
    BY <1>3 DEF Present, Trees, Absent
  <2>2. /\ e.type = t[p].type /\ e.size = t[p].size /\ e.bytes = t[p].bytes
        /\ e.perm = t[p].perm /\ e.mtime = Stored(src_list[p].mtime)
    BY <2>1 DEF Items
  <2>3. dst' = [t EXCEPT ![p] = e]
    BY <1>3, <1>4, <1>6 DEF WithTime, Trees
  <2> HIDE DEF e, r
  <2>4. dst'[p] = e /\ \A q \in Paths \ {p} : dst'[q] = t[q]
    BY <1>3, <2>3 DEF Trees
  <2>5. ASSUME NEW q \in Paths
        PROVE  /\ dst'[q].type = dst[q].type /\ dst'[q].size = dst[q].size
               /\ dst'[q].bytes = dst[q].bytes
               /\ dst'[q].mtime = dst[q].mtime
                     \/ (q = p /\ dst'[q].mtime = Stored(src_list[p].mtime))
               /\ dst'[q].perm = dst[q].perm
                     \/ (q = r /\ pe /\ src_list[p].type # "link"
                               /\ dst'[q].perm = src_list[p].perm)
    BY <1>3, <2>2, <2>4
  <2>6. /\ dst'[p].mtime = Stored(src_list[p].mtime)
        /\ pe /\ src_list[p].type # "link" /\ dst[p].type # "link"
             => dst'[p].perm = src_list[p].perm
    BY <1>3, <2>2, <2>4
  <2> QED BY <1>1, <1>6, <2>5, <2>6 DEF SetDoes, r
<1> QED BY <1>5, <1>6

LEMMA MetaFields ==
  ASSUME IInv, NEW p \in Paths, SetMetadata(p)
  PROVE  Advance(p) /\ phase \in {"meta", "meta_dirs"} /\ rc' = rc /\ SetDoes(p, TRUE, TRUE)
<1>1. Advance(p) /\ phase \in {"meta", "meta_dirs"} /\ rc' = rc
  BY FaultSeen DEF SetMetadata, Advance, NoFault
<1>2. dst \in Trees /\ src_list[p] \in Items
  <2>1. p \in src_cp_list /\ Active
    BY <1>1 DEF IInv, TodoInv, Advance, Active
  <2> QED BY <2>1, Listed
<1>3. CASE dst' = dst /\ p \notin Present(dst)
  BY <1>1, <1>3 DEF SetDoes
<1>4. CASE /\ p \in Present(dst)
           /\ dst' = Set(p, TRUE, TRUE) \/ (dst' \in SetSome(p, TRUE, TRUE) /\ faults' # {})
  <2>1. SetDoes(p, TRUE, TRUE)
    BY <1>2, <1>4, SetFields
  <2> QED BY <1>1, <2>1
<1> QED BY <1>1, <1>3, <1>4, FaultSeen DEF SetMetadata

LEMMA RefreshFields ==
  ASSUME IInv, NEW p \in Paths, RefreshMetadata(p)
  PROVE  /\ Advance(p) /\ phase = "refresh" /\ SetDoes(p, PermDiffers(p), TimeDiffers(p))
         /\ rc' = 0 => p \in Present(dst)
<1>1. Advance(p) /\ phase = "refresh" /\ (rc' = 0 => p \in Present(dst))
  BY FaultSeen DEF RefreshMetadata, Advance, NoFault, Fails, Succeeds
<1>2. dst \in Trees /\ src_list[p] \in Items
  <2>1. p \in Common /\ Active
    BY <1>1 DEF IInv, TodoInv, ListsInv, Advance, Active
  <2> QED BY <2>1, Listed
<1>3. CASE dst' = dst /\ p \notin Present(dst)
  BY <1>1, <1>3 DEF SetDoes
<1>4. CASE /\ p \in Present(dst)
           /\ \/ dst' = Set(p, PermDiffers(p), TimeDiffers(p))
              \/ dst' \in SetSome(p, PermDiffers(p), TimeDiffers(p)) /\ faults' # {}
  <2>1. PermDiffers(p) \in BOOLEAN /\ TimeDiffers(p) \in BOOLEAN
    BY DEF PermDiffers, TimeDiffers
  <2>2. SetDoes(p, PermDiffers(p), TimeDiffers(p))
    BY <1>2, <1>4, <2>1, SetFields
  <2> QED BY <1>1, <2>2
<1> QED BY <1>1, <1>3, <1>4, FaultSeen DEF RefreshMetadata

ItemDoes(p) ==
    /\ Advance(p)
    /\ \/ UnlinkDoes(p) \/ MakeDoes(p) \/ CreateDoes(p) \/ OverwriteDoes(p) \/ CopyDoes(p)
       \/ phase \in {"meta", "meta_dirs"} /\ rc' = rc /\ SetDoes(p, TRUE, TRUE)
       \/ /\ phase = "refresh" /\ (rc' = 0 => p \in Present(dst))
          /\ SetDoes(p, PermDiffers(p), TimeDiffers(p))

LEMMA ItemFields ==
  ASSUME IInv, InDirectories(dst), NEW p \in Paths, Item(p)
  PROVE  ItemDoes(p)
<1>1. CASE Unlink(p)
  BY <1>1, UnlinkFields DEF ItemDoes
<1>2. CASE MakeDirectory(p)
  BY <1>2, MakeFields DEF ItemDoes
<1>3. CASE CreateItem(p)
  BY <1>3, CreateFields DEF ItemDoes
<1>4. CASE CompareData(p)
  BY <1>4, OverwriteFields DEF ItemDoes
<1>5. CASE CopyData(p)
  BY <1>5, CopyFields DEF ItemDoes
<1>6. CASE SetMetadata(p)
  BY <1>6, MetaFields DEF ItemDoes
<1>7. CASE RefreshMetadata(p)
  BY <1>7, RefreshFields DEF ItemDoes
<1> QED BY <1>1, <1>2, <1>3, <1>4, <1>5, <1>6, <1>7 DEF Item

\* A run that is killed leaves at most one file half written.
LEMMA CrashFields ==
  ASSUME IInv, Crash
  PROVE  /\ phase' = "idle" /\ exit' = "killed" /\ UNCHANGED <<run, rc, faults>>
         /\ \/ dst' = dst
            \/ \E p \in Paths : /\ Others(dst', dst, p)
                                /\ dst'[p].type = dst[p].type /\ dst'[p].mtime = Now
<1>1. phase' = "idle" /\ exit' = "killed" /\ UNCHANGED <<run, rc, faults>>
  BY DEF Crash
<1>2. dst \in Trees /\ todo \subseteq Paths
  BY DEF IInv, TypeOK
<1>3. ASSUME NEW p \in todo, phase = "copy", IsFile(dst, p), dst' = Filled(p, "torn")
      PROVE  Others(dst', dst, p) /\ dst'[p].type = dst[p].type /\ dst'[p].mtime = Now
  <2>1. p \in src_cp_list /\ Active /\ p \in Paths
    BY <1>2, <1>3 DEF IInv, TodoInv, Active
  <2>2. src_list[p] \in Items /\ "torn" \in Bytes
    BY <2>1, Listed, TreeAssumption
  <2>3. p = Reached(dst, p)
    BY <1>3 DEF Reached, IsFile
  <2>4. Others(dst', dst, p) /\ Written(dst'[p], src_list[p].size, "torn")
    BY <1>2, <1>3, <2>1, <2>2, <2>3, FilledFields
  <2> QED BY <1>3, <2>4 DEF Written, IsFile
<1>4. ASSUME NEW p \in todo, phase = "data", dst' = Overwritten(p, "torn")
      PROVE  Others(dst', dst, p) /\ dst'[p].type = dst[p].type /\ dst'[p].mtime = Now
  <2>1. dst[p] \in Items /\ p \in Paths
    <3>1. p \in Common /\ p \in Paths
      BY <1>2, <1>4 DEF IInv, TodoInv, ListsInv, Active
    <3> QED BY <1>4, <3>1 DEF IInv, TypeOK, SnapshotInv, Common, Present, Trees, Absent
  <2> DEFINE i == [dst[p] EXCEPT !.bytes = "torn", !.mtime = Now]
  <2>2. dst' = [dst EXCEPT ![p] = i]
    BY <1>2, <1>4 DEF Overwritten, Trees
  <2>3. i.type = dst[p].type /\ i.mtime = Now
    BY <2>1 DEF Items
  <2> HIDE DEF i
  <2> QED BY <1>2, <2>1, <2>2, <2>3 DEF Trees, Others
<1> QED BY <1>1, <1>2, <1>3, <1>4 DEF Crash

-----------------------------------------------------------------------------
(* The destination is a file system.                                         *)

FileSystemInv == InDirectories(dst) /\ StoredTimes(dst)

LEMMA StoredOnce ==
  Stored(Now) = Now /\ \A t \in Nat \X Nat : Stored(Stored(t)) = Stored(t)
  BY DEF Stored, Now

\* Types change for one path at most: it goes, without entries, or comes into a directory.
LEMMA TreeStep ==
  ASSUME InDirectories(dst), NEW p \in Paths,
         \A q \in Paths \ {p} : dst'[q].type = dst[q].type,
         \/ dst'[p].type = dst[p].type
         \/ CanRemove(dst, p) /\ dst'[p].type = "none"
         \/ CanCreate(dst, p)
  PROVE  InDirectories(dst')
<1> SUFFICES ASSUME NEW q \in Paths \ {Root}, dst'[q].type # "none"
             PROVE  dst'[ParentOf[q]].type = "dir"
  BY DEF InDirectories
<1> DEFINE r == ParentOf[q]
<1>1. r \in Paths /\ r # q
  BY TreeAssumption
<1>2. CASE dst'[p].type = dst[p].type
  BY <1>1, <1>2 DEF InDirectories
<1>3. CASE CanRemove(dst, p) /\ dst'[p].type = "none"
  <2>1. q # p /\ dst[q].type # "none" /\ dst[r].type = "dir"
    BY <1>1, <1>3 DEF InDirectories
  <2>2. r # p
    BY <1>1, <1>3, <2>1 DEF CanRemove, HasChildren, IsDir, Present
  <2> QED BY <1>1, <2>1, <2>2
<1>4. CASE CanCreate(dst, p)
  <2>1. dst[r].type = "dir"
    BY <1>1, <1>4 DEF InDirectories, CanCreate, ParentIsDir, IsDir
  <2>2. r # p
    BY <1>4, <2>1 DEF CanCreate, Present
  <2> QED BY <1>1, <2>1, <2>2
<1> QED BY <1>2, <1>3, <1>4

LEMMA OthersTypes ==
  ASSUME NEW p \in Paths, Others(dst', dst, p)
  PROVE  /\ \A q \in Paths \ {p} : dst'[q].type = dst[q].type
         /\ StoredTimes(dst) =>
              \A q \in Paths \ {p} : dst'[q].type # "none" => Stored(dst'[q].mtime) = dst'[q].mtime
  BY StoredOnce DEF Others, Dated, StoredTimes

LEMMA PathTimes ==
  ASSUME NEW p \in Paths, StoredTimes(dst), Others(dst', dst, p),
         dst'[p].type # "none" => Stored(dst'[p].mtime) = dst'[p].mtime
  PROVE  StoredTimes(dst')
  BY OthersTypes DEF StoredTimes

LEMMA ItemFileSystem ==
  ASSUME IInv, FileSystemInv, NEW p \in Paths, ItemDoes(p)
  PROVE  FileSystemInv'
<1>1. InDirectories(dst) /\ StoredTimes(dst) /\ dst \in Trees /\ Advance(p)
  BY DEF FileSystemInv, IInv, TypeOK, ItemDoes
<1>2. SUFFICES InDirectories(dst') /\ StoredTimes(dst')
  BY DEF FileSystemInv, InDirectories, StoredTimes
<1>3. CASE dst' = dst
  BY <1>1, <1>3
<1>4. ASSUME NEW q \in Paths, Others(dst', dst, q), dst'[q].type # "none" => dst'[q].mtime = Now,
             \/ dst'[q].type = dst[q].type
             \/ CanRemove(dst, q) /\ dst'[q].type = "none"
             \/ CanCreate(dst, q)
      PROVE  InDirectories(dst') /\ StoredTimes(dst')
  BY <1>1, <1>4, OthersTypes, PathTimes, TreeStep, StoredOnce
<1>5. ASSUME NEW type PROVE New(type).mtime = Now
  BY DEF New
<1>6. CASE UnlinkDoes(p)
  BY <1>3, <1>4, <1>6, EntryTypes DEF UnlinkDoes
<1>7. CASE MakeDoes(p)
  BY <1>3, <1>4, <1>5, <1>7 DEF MakeDoes
<1>8. CASE CreateDoes(p)
  <2>1. NewItem(p).mtime = Now
    BY <1>5 DEF NewItem, New
  <2> QED BY <1>3, <1>4, <1>8, <2>1 DEF CreateDoes
<1>9. CASE OverwriteDoes(p)
  <2>1. Others(dst', dst, p)
    BY <1>9 DEF OverwriteDoes, Others
  <2> QED BY <1>3, <1>4, <1>9, <2>1 DEF OverwriteDoes
<1>10. CASE CopyDoes(p)
  <2> DEFINE q == Reached(dst, p)
  <2>1. q \in Paths
    BY ReachedPath
  <2>2. CASE /\ IsFile(dst, q) \/ CanCreate(dst, q)
             /\ Others(dst', dst, q) /\ \E b \in Bytes : Written(dst'[q], src_list[p].size, b)
    BY <1>4, <2>1, <2>2 DEF Written, IsFile
  <2> QED BY <1>3, <1>10, <2>2 DEF CopyDoes
<1>11. ASSUME NEW perm, NEW time, SetDoes(p, perm, time), src_list[p] \in Items
       PROVE  InDirectories(dst') /\ StoredTimes(dst')
  <2>1. \A q \in Paths : dst'[q].type = dst[q].type
    BY <1>11 DEF SetDoes
  <2>2. InDirectories(dst')
    BY <1>1, <2>1, TreeStep
  <2>3. src_list[p].mtime \in Nat \X Nat
    BY <1>11 DEF Items
  <2>4. Stored(Stored(src_list[p].mtime)) = Stored(src_list[p].mtime)
    BY <2>3, StoredOnce
  <2> QED BY <1>1, <1>11, <2>1, <2>2, <2>4 DEF SetDoes, StoredTimes
<1>12. CASE phase \in {"meta", "meta_dirs", "refresh"} /\ \E perm, time : SetDoes(p, perm, time)
  <2>1. Active /\ (p \in src_cp_list \/ p \in Common)
    BY <1>1, <1>12 DEF IInv, TodoInv, ListsInv, Active, Advance
  <2> QED BY <1>11, <1>12, <2>1, Listed
<1> QED BY <1>6, <1>7, <1>8, <1>9, <1>10, <1>12 DEF ItemDoes

LEMMA CrashFileSystem ==
  ASSUME IInv, FileSystemInv, Crash
  PROVE  FileSystemInv'
<1>1. InDirectories(dst) /\ StoredTimes(dst)
  BY DEF FileSystemInv
<1>2. SUFFICES InDirectories(dst') /\ StoredTimes(dst')
  BY DEF FileSystemInv, InDirectories, StoredTimes
<1>3. ASSUME NEW p \in Paths, Others(dst', dst, p), dst'[p].type = dst[p].type, dst'[p].mtime = Now
      PROVE  InDirectories(dst') /\ StoredTimes(dst')
  BY <1>1, <1>3, OthersTypes, PathTimes, TreeStep, StoredOnce
<1> QED BY <1>1, <1>3, CrashFields

-----------------------------------------------------------------------------
(* What the lists are when nothing has failed.                               *)

Smooth == faults = {} /\ ~options.dry_run

DryKeeps == options.dry_run => dst = dst0

SnapInv ==
    phase # "idle" /\ faults = {} =>
        /\ phase # "walk_src" => src_list = src
        /\ phase \notin {"walk_src", "walk_dst"} => dst_list = dst0
        /\ phase \in {"walk_src", "walk_dst", "compare"} => dst = dst0

PlanInv ==
    Active /\ Smooth =>
        /\ src_cp_list = OnlySrc \cup Replaced
        /\ src_compare_list = IF options.contents THEN CompareList ELSE {}
        /\ \A p \in Common : MetadataDiffers(p) => p \in metadata_refresh
        /\ dst_remove_list = Replaced \cup IF phase \in {"data", "sync"} THEN {} ELSE Extraneous

PlanPart == FileSystemInv /\ DryKeeps /\ SnapInv /\ PlanInv

\* What is a matter of the lists and the options stays so while they do.
LEMMA SameLists ==
  ASSUME UNCHANGED <<options, src_list, dst_list>>
  PROVE  /\ Common' = Common /\ OnlySrc' = OnlySrc /\ OnlyDst' = OnlyDst
         /\ CompareList' = CompareList /\ Replaced' = Replaced /\ Extraneous' = Extraneous
         /\ \A p : MetadataDiffers(p)' <=> MetadataDiffers(p)
<1>1. /\ Common' = Common /\ OnlySrc' = OnlySrc /\ OnlyDst' = OnlyDst
      /\ HaveContents' = HaveContents /\ \A p : MetadataDiffers(p)' <=> MetadataDiffers(p)
  BY DEF Common, OnlySrc, OnlyDst, Present, MetadataDiffers, HaveContents, TypeDiffers, IsFile
<1>2. CompareList' = CompareList /\ Extraneous' = Extraneous
  BY <1>1 DEF CompareList, SizeDiffers, Extraneous
<1>3. Replaced' = Replaced
  BY <1>1, <1>2 DEF Replaced, TypeDiffers, SizeDiffers, LiteDiffers
<1> QED BY <1>1, <1>2, <1>3

LEMMA InitPlan == Init => PlanPart
<1> SUFFICES ASSUME Init PROVE PlanPart
  OBVIOUS
<1>1. FileSystemInv
  BY FileSystemAssumption DEF Init, FileSystemInv
<1> QED BY <1>1 DEF Init, PlanPart, DryKeeps, SnapInv, PlanInv, Active

LEMMA SamePlan ==
  ASSUME PlanInv, Active, phase' = phase, faults \subseteq faults',
         UNCHANGED <<options, src_list, dst_list, src_cp_list, src_compare_list,
                     metadata_refresh, dst_remove_list>>
  PROVE  PlanInv'
<1>1. Smooth' => Smooth
  BY DEF Smooth
<1> QED BY <1>1, SameLists DEF PlanInv, Active

LEMMA ItemPlan ==
  ASSUME IInv, PlanPart, NEW p \in Paths, Item(p)
  PROVE  PlanPart' /\ ItemDoes(p)
<1>1. Advance(p) /\ ItemDoes(p) /\ FileSystemInv' /\ Active /\ phase \in ItemPhases
  BY ItemFields, ItemFileSystem DEF PlanPart, FileSystemInv, ItemDoes, Active, ItemPhases,
     UnlinkDoes, MakeDoes, CreateDoes, OverwriteDoes, CopyDoes
<1>2. DryKeeps'
  BY <1>1, ItemEffect DEF PlanPart, DryKeeps, Effect, run
<1>3. SnapInv'
  BY <1>1 DEF PlanPart, SnapInv, Advance, run, lists, ItemPhases, Active
<1>4. PlanInv'
  BY <1>1, SamePlan DEF PlanPart, Advance, run, lists
<1> QED BY <1>1, <1>2, <1>3, <1>4 DEF PlanPart

\* Steps that leave the destination alone, and the plan of a run that ends or begins.
LEMMA QuietPlan ==
  ASSUME PlanPart, dst' = dst, UNCHANGED <<options, dst0>>
  PROVE  FileSystemInv' /\ DryKeeps'
  BY DEF PlanPart, FileSystemInv, InDirectories, StoredTimes, DryKeeps

LEMMA StartPlan == PlanPart /\ Start => PlanPart'
<1> SUFFICES ASSUME PlanPart, Start PROVE PlanPart'
  OBVIOUS
<1>1. FileSystemInv' /\ DryKeeps' /\ SnapInv' /\ PlanInv'
  BY DEF Start, PlanPart, FileSystemInv, InDirectories, StoredTimes, DryKeeps, SnapInv, PlanInv,
     Active
<1> QED BY <1>1 DEF PlanPart

LEMMA WalkedAll ==
  ASSUME NEW t \in Trees
  PROVE  Walked(t, {}) = t
  BY DEF Walked, Trees

LEMMA WalkPlan == IInv /\ PlanPart /\ (WalkSrc \/ WalkDst) => PlanPart'
<1> SUFFICES ASSUME IInv, PlanPart, WalkSrc \/ WalkDst PROVE PlanPart'
  OBVIOUS
<1>1. dst' = dst /\ UNCHANGED <<options, dst0, src>> /\ src \in Trees /\ dst \in Trees
  BY TreeAssumption DEF WalkSrc, WalkDst, run, IInv, TypeOK
<1>2. FileSystemInv' /\ DryKeeps'
  BY <1>1, QuietPlan
<1>3. CASE WalkSrc
  <2>1. faults' = {} => faults = {} /\ src_list' = src
    BY <1>1, <1>3, FaultSeen, WalkedAll DEF WalkSrc, NoFault
  <2>2. phase' \in {"idle", "walk_dst"} /\ phase = "walk_src"
    BY <1>3 DEF WalkSrc
  <2>3. SnapInv' /\ PlanInv'
    BY <1>1, <2>1, <2>2 DEF PlanPart, SnapInv, PlanInv, Active
  <2> QED BY <1>2, <2>3 DEF PlanPart
<1>4. CASE WalkDst
  <2>1. faults' = {} => faults = {} /\ dst_list' = dst
    BY <1>1, <1>4, FaultSeen, WalkedAll DEF WalkDst, NoFault
  <2>2. phase' = "compare" /\ phase = "walk_dst" /\ src_list' = src_list
    BY <1>4 DEF WalkDst
  <2>3. SnapInv' /\ PlanInv'
    BY <1>1, <2>1, <2>2 DEF PlanPart, SnapInv, PlanInv, Active
  <2> QED BY <1>2, <2>3 DEF PlanPart
<1> QED BY <1>3, <1>4

LEMMA ComparePlan == PlanPart /\ Compare => PlanPart'
<1> SUFFICES ASSUME PlanPart, Compare PROVE PlanPart'
  OBVIOUS
<1>1. /\ dst' = dst /\ UNCHANGED <<options, dst0, src, src_list, dst_list, faults>>
      /\ phase' = "data" /\ phase = "compare"
  BY DEF Compare, run
<1>2. FileSystemInv' /\ DryKeeps'
  BY <1>1, QuietPlan
<1>3. SnapInv'
  BY <1>1 DEF PlanPart, SnapInv
<1>4. PlanInv'
  <2>1. SUFFICES ASSUME ~options.dry_run PROVE PlanInv'
    BY <1>1 DEF PlanInv, Smooth
  <2>2. /\ src_cp_list' = OnlySrc \cup Replaced /\ dst_remove_list' = Replaced
        /\ src_compare_list' = IF options.contents THEN CompareList ELSE {}
        /\ \A p \in Common : MetadataDiffers(p) => p \in metadata_refresh'
    BY <2>1 DEF Compare
  <2> QED BY <1>1, <2>2, SameLists DEF PlanInv
<1> QED BY <1>2, <1>3, <1>4 DEF PlanPart

LEMMA SyncPlan == PlanPart /\ SyncFiles => PlanPart'
<1> SUFFICES ASSUME PlanPart, SyncFiles PROVE PlanPart'
  OBVIOUS
<1>1. /\ dst' = dst
      /\ UNCHANGED <<options, dst0, src, src_list, dst_list, src_cp_list, src_compare_list,
                     metadata_refresh>>
      /\ phase = "sync"
  BY DEF SyncFiles, run
<1>2. FileSystemInv' /\ DryKeeps'
  BY <1>1, QuietPlan
<1>3. faults' = {} => /\ faults = {} /\ phase' = "unlink_files"
                      /\ dst_remove_list' = dst_remove_list \cup Extraneous
  BY FaultSeen DEF SyncFiles, NoFault
<1>4. phase' \in {"unlink_files", "refresh"}
  BY DEF SyncFiles
<1>5. SnapInv'
  BY <1>1, <1>3, <1>4 DEF PlanPart, SnapInv
<1>6. PlanInv'
  <2>1. SUFFICES ASSUME Smooth' PROVE PlanInv'
    BY DEF PlanInv
  <2>2. Active /\ Smooth
    BY <1>1, <1>3, <2>1 DEF Active, Smooth
  <2> QED BY <1>1, <1>3, <2>1, <2>2, SameLists DEF PlanPart, PlanInv, Smooth
<1> QED BY <1>2, <1>5, <1>6 DEF PlanPart

LEMMA PhasePlan == PlanPart /\ (DataDone \/ Barrier \/ NextBatch \/ Done) => PlanPart'
<1> SUFFICES ASSUME PlanPart, DataDone \/ Barrier \/ NextBatch \/ Done PROVE PlanPart'
  OBVIOUS
<1>1. /\ dst' = dst
      /\ UNCHANGED <<options, dst0, src, src_list, dst_list, src_cp_list, dst_remove_list,
                     src_compare_list, metadata_refresh, faults>>
  BY DEF DataDone, Barrier, NextBatch, Done, run, lists
<1>2. FileSystemInv' /\ DryKeeps'
  BY <1>1, QuietPlan
<1>3. \/ phase' = "idle"
      \/ phase = "data" /\ phase' = "sync"
      \/ /\ phase \in {"unlink_files", "unlink_dirs", "mkdir", "batch", "create", "copy", "meta",
                       "meta_dirs"}
         /\ phase' \in {"unlink_dirs", "mkdir", "batch", "create", "copy", "meta", "meta_dirs",
                        "refresh"}
  BY DEF DataDone, Barrier, NextBatch, Done, Finish, Follows
<1>4. SnapInv'
  BY <1>1, <1>3 DEF PlanPart, SnapInv
<1>5. PlanInv'
  <2>1. Active' => Active
    BY <1>3 DEF Active
  <2>2. Smooth' <=> Smooth
    BY <1>1 DEF Smooth
  <2>3. Active' => (phase' \in {"data", "sync"} <=> phase \in {"data", "sync"})
    BY <1>3 DEF Active
  <2> QED BY <1>1, <2>1, <2>2, <2>3, SameLists DEF PlanPart, PlanInv
<1> QED BY <1>2, <1>4, <1>5 DEF PlanPart

LEMMA CrashPlan == IInv /\ PlanPart /\ Crash => PlanPart'
<1> SUFFICES ASSUME IInv, PlanPart, Crash PROVE PlanPart'
  OBVIOUS
<1>1. FileSystemInv'
  BY CrashFileSystem DEF PlanPart
<1>2. DryKeeps' /\ SnapInv' /\ PlanInv'
  BY CrashInv, CrashFields DEF PlanPart, DryKeeps, SnapInv, PlanInv, Active, run
<1> QED BY <1>1, <1>2 DEF PlanPart

-----------------------------------------------------------------------------
(* What is removed.                                                          *)

\* What the comparison leaves where it is.
Kept == Common \ Replaced

\* A directory to be removed that keeps entries, since nothing is deleted.
Stuck(p) ==
    /\ ~options.delete /\ dst0[p].type = "dir"
    /\ \E c \in Paths \ {Root} : ParentOf[c] = p /\ c \in Present(dst0) \ Present(src)
Gone(p) == dst[p].type = "none" \/ (dst[p].type = "dir" /\ Stuck(p))

UnlinkInv ==
    Smooth => \A p \in Paths :
        /\ phase \in {"data", "sync"} => dst[p].type = dst0[p].type
        /\ phase = "unlink_files" =>
             /\ p \in todo => ~IsDir(dst0, p)
             /\ dst[p].type = IF p \in dst_remove_list \ todo /\ ~IsDir(dst0, p)
                              THEN "none" ELSE dst0[p].type
        /\ phase = "unlink_dirs" =>
             /\ p \in todo => IsDir(dst0, p)
             /\ IF p \in dst_remove_list \ todo THEN Gone(p) ELSE dst[p].type = dst0[p].type

\* What the comparison found of the items that stay.
LEMMA KeptFacts ==
  ASSUME src_list = src, dst_list = dst0, NEW p \in Kept
  PROVE  /\ p \in Common /\ p \in Paths /\ src[p].type = dst0[p].type
         /\ IsFile(src, p) =>
              /\ dst0[p].size = src[p].size
              /\ options.contents => p \in CompareList
              /\ ~options.contents => dst0[p].mtime = src[p].mtime
<1>1. p \in Common /\ p \in Paths /\ src[p].type = dst0[p].type
  BY DEF Kept, Replaced, TypeDiffers, Common, Present
<1>2. IsFile(src, p) => p \in HaveContents
  BY <1>1 DEF HaveContents, TypeDiffers, IsFile
<1>3. IsFile(src, p) => ~SizeDiffers(p)
  BY <1>2 DEF Kept, Replaced
<1>4. IsFile(src, p) => p \in CompareList
  BY <1>2, <1>3 DEF CompareList
<1>5. IsFile(src, p) /\ ~options.contents => ~LiteDiffers(p)
  BY <1>4 DEF Kept, Replaced
<1> QED BY <1>1, <1>3, <1>4, <1>5 DEF SizeDiffers, LiteDiffers

\* The plan of a run without failures, path by path.
LEMMA PlanFacts ==
  ASSUME IInv, PlanPart, Active, Smooth
  PROVE  /\ src_list = src /\ dst_list = dst0
         /\ \A p \in Kept : /\ p \in Paths /\ p \notin src_cp_list /\ p \notin dst_remove_list
                            /\ dst0[p].type = src[p].type /\ src[p].type # "none"
                            /\ IsFile(src, p) =>
                                 /\ dst0[p].size = src[p].size
                                 /\ options.contents => p \in src_compare_list
                                 /\ ~options.contents => dst0[p].mtime = src[p].mtime
         /\ \A p \in src_cp_list : /\ p \in Paths /\ src[p].type # "none"
                                   /\ dst0[p].type = "none" \/ p \in dst_remove_list
                                   /\ IsDir(src, p) => ~IsDir(dst0, p)
         /\ \A p \in Present(src) : p \in src_cp_list \/ p \in Kept
         /\ \A p \in dst_remove_list : /\ p \in Paths /\ dst0[p].type # "none"
                                       /\ IsDir(dst0, p) => ~IsDir(src, p)
         /\ options.delete /\ phase \notin {"data", "sync"} =>
              \A p \in Present(dst0) \ Present(src) : p \in dst_remove_list
         /\ src_compare_list \subseteq Kept
<1>1. src_list = src /\ dst_list = dst0
  BY DEF PlanPart, SnapInv, Active, Smooth
<1>2. /\ src_cp_list = OnlySrc \cup Replaced
      /\ src_compare_list = IF options.contents THEN CompareList ELSE {}
      /\ dst_remove_list = Replaced \cup IF phase \in {"data", "sync"} THEN {} ELSE Extraneous
  BY DEF PlanPart, PlanInv
<1>3. \A p \in Common : /\ p \in Paths /\ src[p].type # "none" /\ dst0[p].type # "none"
  BY <1>1 DEF Common, Present
<1>4. \A p \in OnlySrc : p \in Paths /\ src[p].type # "none" /\ dst0[p].type = "none"
  BY <1>1 DEF OnlySrc, Present
<1>5. \A p \in OnlyDst : p \in Paths /\ src[p].type = "none" /\ dst0[p].type # "none"
  BY <1>1 DEF OnlyDst, Present
<1>6. \A p \in Replaced : p \in Common /\ (src[p].type # dst0[p].type \/ IsFile(dst0, p))
  BY <1>1 DEF Replaced, CompareList, HaveContents, TypeDiffers
<1>7. ASSUME NEW p \in Kept
      PROVE  /\ p \in Common /\ src[p].type = dst0[p].type
             /\ IsFile(src, p) =>
                  /\ dst0[p].size = src[p].size
                  /\ options.contents => p \in src_compare_list
                  /\ ~options.contents => dst0[p].mtime = src[p].mtime
  BY <1>1, <1>2, KeptFacts
<1>8. Kept \cap Replaced = {} /\ Kept \cap OnlySrc = {} /\ Kept \cap OnlyDst = {}
  BY DEF Kept, Common, OnlySrc, OnlyDst
<1>9. Extraneous = IF options.delete THEN OnlyDst ELSE {}
  BY DEF Extraneous
<1>10. src_compare_list \subseteq Kept
  <2>1. options.contents => CompareList \subseteq Kept
    BY DEF CompareList, Kept, Replaced, HaveContents
  <2> QED BY <1>2, <2>1
<1>11. \A p \in Present(src) : p \in OnlySrc \/ p \in Common
  BY <1>1 DEF OnlySrc, Common
<1>12. Present(dst0) \ Present(src) = OnlyDst
  BY <1>1 DEF OnlyDst
<1>13. \A p \in Kept : p \notin src_cp_list /\ p \notin dst_remove_list
  BY <1>2, <1>8, <1>9
<1>14. \A p \in src_cp_list : /\ p \in Paths /\ src[p].type # "none"
                              /\ dst0[p].type = "none" \/ p \in dst_remove_list
                              /\ IsDir(src, p) => ~IsDir(dst0, p)
  BY <1>2, <1>3, <1>4, <1>6 DEF IsDir, IsFile
<1>15. \A p \in Present(src) : p \in src_cp_list \/ p \in Kept
  BY <1>2, <1>11 DEF Kept
<1>16. \A p \in dst_remove_list : /\ p \in Paths /\ dst0[p].type # "none"
                                  /\ IsDir(dst0, p) => ~IsDir(src, p)
  BY <1>2, <1>3, <1>5, <1>6, <1>9 DEF IsDir, IsFile
<1>17. options.delete /\ phase \notin {"data", "sync"} =>
         \A p \in Present(dst0) \ Present(src) : p \in dst_remove_list
  BY <1>2, <1>9, <1>12
<1>18. \A p \in Kept : p \in Paths /\ src[p].type # "none"
  BY <1>3, <1>7
<1> QED BY <1>1, <1>7, <1>10, <1>13, <1>14, <1>15, <1>16, <1>17, <1>18

\* A directory that cannot be removed when its turn has come keeps an entry that is
\* not to be removed at all.
LEMMA StuckDirectory ==
  ASSUME IInv, PlanPart, UnlinkInv, Smooth, phase = "unlink_dirs",
         NEW p \in todo, Deepest(p), ~CanRemove(dst, p)
  PROVE  dst[p].type = "dir" /\ Stuck(p)
<1>1. Active /\ p \in dst_remove_list /\ p \in Paths
  BY DEF IInv, TypeOK, TodoInv, Active
<1>2. dst[p].type = "dir" /\ IsDir(dst0, p) /\ ~IsDir(src, p)
  BY <1>1, PlanFacts DEF UnlinkInv, IsDir
<1>3. PICK c \in Paths \ {Root} : ParentOf[c] = p /\ dst[c].type # "none"
  BY <1>1, <1>2 DEF CanRemove, HasChildren, Present
<1>4. dst0[c].type # "none" /\ (c \in dst_remove_list \ todo => ~options.delete)
  BY <1>3 DEF UnlinkInv, Gone, Stuck
<1>5. src[c].type = "none"
  BY <1>2, <1>3, FileSystemAssumption DEF IInv, TypeOK, InDirectories, IsDir
<1>6. c \notin todo
  <2>1. Depth[c] = Depth[p] + 1 /\ Depth[c] \in Nat /\ Depth[p] \in Nat
    BY <1>1, <1>3, TreeAssumption
  <2> QED BY <2>1 DEF Deepest
<1>7. ~options.delete
  <2>1. options.delete => c \in dst_remove_list
    BY <1>1, <1>4, <1>5, PlanFacts DEF Present
  <2> QED BY <1>4, <1>6, <2>1
<1> QED BY <1>2, <1>3, <1>4, <1>5, <1>7 DEF Stuck, Present, IsDir

LEMMA ItemUnlink ==
  ASSUME IInv, PlanPart, UnlinkInv, NEW p \in Paths, ItemDoes(p)
  PROVE  UnlinkInv'
<1>1. SUFFICES ASSUME Smooth' PROVE UnlinkInv'
  BY DEF UnlinkInv
<1>2. /\ Smooth /\ faults' = {} /\ phase' = phase /\ p \in todo /\ todo' = todo \ {p}
      /\ UNCHANGED <<options, dst0, src, src_list, dst_list, dst_remove_list>>
  BY <1>1 DEF Smooth, ItemDoes, Advance, run, lists
<1>3. CASE OverwriteDoes(p)
  <2>1. phase = "data" /\ \A q \in Paths : dst'[q].type = dst[q].type
    BY <1>3 DEF OverwriteDoes
  <2> QED BY <1>2, <2>1 DEF UnlinkInv
<1>4. CASE UnlinkDoes(p)
  <2>1. Active /\ p \in dst_remove_list
    BY <1>2, <1>4 DEF IInv, TodoInv, Active, UnlinkDoes
  <2>2. dst0[p].type # "none"
    BY <1>2, <2>1, PlanFacts
  <2>3. \A q \in Paths : Stuck(q)' <=> Stuck(q)
    BY <1>2 DEF Stuck, Present
  <2>4. \A q \in Paths \ {p} : dst'[q].type = dst[q].type
    BY <1>4, OthersTypes DEF UnlinkDoes
  <2>5. CASE phase = "unlink_files"
    <3>1. ~IsDir(dst0, p) /\ dst[p].type = dst0[p].type
      BY <1>2, <2>5 DEF UnlinkInv
    <3>2. CanRemove(dst, p)
      BY <2>2, <3>1 DEF CanRemove, Present, IsDir
    <3>3. dst'[p].type = "none"
      BY <1>2, <1>4, <3>2 DEF UnlinkDoes, Absent
    <3> QED BY <1>2, <2>1, <2>4, <2>5, <3>1, <3>3 DEF UnlinkInv, IsDir
  <2>6. CASE phase = "unlink_dirs"
    <3>1. Gone(p)'
      <4>1. CASE dst'[p] = Absent
        BY <4>1 DEF Gone, Absent
      <4>2. CASE dst' = dst /\ ~CanRemove(dst, p)
        <5>1. dst[p].type = "dir" /\ Stuck(p)
          BY <1>2, <1>4, <2>6, <4>2, StuckDirectory DEF UnlinkDoes
        <5> QED BY <2>3, <4>2, <5>1 DEF Gone
      <4> QED BY <1>2, <1>4, <4>1, <4>2 DEF UnlinkDoes
    <3>2. \A q \in Paths \ {p} : Gone(q)' <=> Gone(q)
      BY <2>3, <2>4 DEF Gone
    <3> QED BY <1>2, <2>1, <2>4, <2>6, <3>1, <3>2 DEF UnlinkInv, IsDir
  <2> QED BY <1>4, <2>5, <2>6 DEF UnlinkDoes
<1>5. CASE phase \notin {"data", "unlink_files", "unlink_dirs"} /\ phase # "sync"
  BY <1>2, <1>5 DEF UnlinkInv
<1> QED BY <1>3, <1>4, <1>5 DEF ItemDoes, MakeDoes, CreateDoes, CopyDoes

LEMMA CompareUnlink == IInv /\ PlanPart /\ Compare => UnlinkInv'
<1> SUFFICES ASSUME IInv, PlanPart, Compare, Smooth' PROVE UnlinkInv'
  BY DEF UnlinkInv
<1>1. phase = "compare" /\ phase' = "data" /\ faults = {} /\ UNCHANGED <<dst, dst0>>
  BY DEF Compare, run, Smooth
<1>2. dst = dst0
  BY <1>1 DEF PlanPart, SnapInv
<1> QED BY <1>1, <1>2 DEF UnlinkInv

LEMMA SyncUnlink == IInv /\ PlanPart /\ UnlinkInv /\ SyncFiles => UnlinkInv'
<1> SUFFICES ASSUME IInv, PlanPart, UnlinkInv, SyncFiles, Smooth' PROVE UnlinkInv'
  BY DEF UnlinkInv
<1>1. /\ phase = "sync" /\ phase' = "unlink_files" /\ UNCHANGED <<dst, dst0, options>>
      /\ faults = {} /\ todo' = {p \in dst_remove_list' : ~IsDir(dst_list, p)}
  BY FaultSeen DEF SyncFiles, NoFault, Smooth, run
<1>2. dst_list = dst0 /\ \A p \in Paths : dst[p].type = dst0[p].type
  BY <1>1 DEF PlanPart, SnapInv, UnlinkInv, Smooth
<1> QED BY <1>1, <1>2 DEF UnlinkInv, IsDir

LEMMA PhaseUnlink ==
  IInv /\ PlanPart /\ UnlinkInv /\ (DataDone \/ Barrier \/ NextBatch) => UnlinkInv'
<1> SUFFICES ASSUME IInv, PlanPart, UnlinkInv, DataDone \/ Barrier \/ NextBatch, Smooth'
             PROVE  UnlinkInv'
  BY DEF UnlinkInv
<1>1. UNCHANGED <<dst, dst0, options, src, dst_remove_list, dst_list>> /\ Smooth
  BY DEF DataDone, Barrier, NextBatch, Smooth, run, lists
<1>2. CASE DataDone
  BY <1>1, <1>2 DEF DataDone, Finish, Smooth, UnlinkInv
<1>3. CASE Barrier /\ phase = "unlink_files"
  <2>1. /\ phase' = "unlink_dirs" /\ todo = {}
        /\ todo' = {p \in dst_remove_list : IsDir(dst_list, p)}
    BY <1>1, <1>3 DEF Barrier, Follows, ItemsOf
  <2>2. dst_list = dst0
    BY <1>1, <1>3 DEF PlanPart, SnapInv, Smooth
  <2>3. \A p \in Paths : /\ p \in todo' => IsDir(dst0, p)
                         /\ IF p \in dst_remove_list \ todo' THEN dst[p].type = "none"
                            ELSE dst[p].type = dst0[p].type
    BY <1>1, <1>3, <2>1, <2>2 DEF UnlinkInv, IsDir
  <2> QED BY <1>1, <2>1, <2>3 DEF UnlinkInv, Gone
<1>4. CASE NextBatch \/ (Barrier /\ phase # "unlink_files")
  BY <1>4 DEF Barrier, NextBatch, Follows, UnlinkInv
<1> QED BY <1>2, <1>3, <1>4

-----------------------------------------------------------------------------
(* What is copied.                                                           *)

Copied(p) ==
    \/ phase \in {"meta_dirs", "refresh"}
    \/ phase \in {"batch", "meta"} /\ p \notin left
    \/ phase = "create" /\ p \notin left \cup batch
    \/ phase = "copy" /\ p \notin left \cup todo

\* An item whose turn to be created has not come.
Pending(p) ==
    \/ phase = "mkdir" /\ (p \in todo \/ ~IsDir(src, p))
    \/ Copying /\ p \in left /\ ~IsDir(src, p)
    \/ phase = "create" /\ p \in todo

\* An item that has been given its metadata: with its batch, or a directory after the last.
HasMeta(p) ==
    \/ phase = "refresh"
    \/ phase = "meta_dirs" /\ p \notin todo
    \/ /\ Copying /\ p \notin left
       /\ p \notin batch \/ (phase = "meta" /\ p \notin todo)
       /\ options.batch_files = 0 \/ ~IsDir(src, p)

Late == phase \in {"mkdir", "batch", "create", "copy", "meta", "meta_dirs", "refresh"}

\* Going on to another phase or batch makes nothing copied that was not.
LEMMA PhaseProgress ==
  ASSUME IInv, src_list = src, Late, Barrier \/ NextBatch, NEW p \in src_cp_list
  PROVE  /\ Pending(p)' <=> Pending(p)
         /\ IsFile(src, p) /\ Copied(p)' => Copied(p)
         /\ HasMeta(p)' => HasMeta(p)
         /\ p \in todo' => phase' # "mkdir" /\ (phase' = "create" => ~IsDir(src, p))
<1>1. UNCHANGED <<src, src_cp_list, options>>
  BY DEF Barrier, NextBatch, run
<1>2. ASSUME Barrier, phase = "mkdir"
      PROVE  /\ phase' = "batch" /\ todo = {} /\ todo' = {} /\ left' = src_cp_list
             /\ left = {} /\ batch = {}
  BY <1>2 DEF Barrier, Follows, ItemsOf, IInv, PassInv, Copying
<1>3. ASSUME Barrier, phase # "mkdir"
      PROVE  /\ todo = {} /\ left' = left
             /\ \/ /\ phase = "create" /\ phase' = "copy" /\ batch' = batch
                   /\ todo' = {q \in batch : IsFile(src, q)}
                \/ phase = "copy" /\ phase' = "meta" /\ batch' = batch /\ todo' = batch
                \/ phase = "meta" /\ phase' = "batch" /\ batch' = {} /\ todo' = {}
                \/ phase = "meta_dirs" /\ phase' = "refresh"
  BY <1>3 DEF Barrier, Follows, ItemsOf, Late
<1>4. ASSUME NextBatch, NEW b \in Batches, left' = left \ b, batch' = OfBatch(b),
             phase' = (IF batch' = {} THEN "batch" ELSE "create"),
             todo' = {q \in batch' : ~IsDir(src_list, q)}
      PROVE  /\ phase = "batch" /\ batch = {} /\ phase' \in {"batch", "create"}
             /\ p \in left <=> p \in left' \/ p \in b
             /\ p \in batch' <=> p \in b /\ (options.batch_files = 0 \/ ~IsDir(src, p))
             /\ p \in todo' <=> p \in b /\ ~IsDir(src, p)
             /\ phase' = "batch" => batch' = {}
  <2>1. phase = "batch" /\ batch = {} /\ b \subseteq left
    BY <1>4 DEF NextBatch, Batches, IInv, PassInv
  <2> QED BY <1>4, <2>1 DEF OfBatch
<1>5. ASSUME NextBatch, left = {},
             phase' = (IF options.batch_files = 0 THEN "refresh" ELSE "meta_dirs"),
             todo' = ItemsOf(phase')
      PROVE  /\ phase = "batch" /\ batch = {} /\ phase' \in {"refresh", "meta_dirs"}
             /\ phase' = "refresh" => options.batch_files = 0
             /\ phase' = "meta_dirs" => todo' = {q \in src_cp_list : IsDir(src, q)}
  <2>1. phase = "batch" /\ batch = {}
    BY <1>5 DEF NextBatch, IInv, PassInv
  <2> QED BY <1>5, <2>1 DEF ItemsOf
<1>6. CASE Barrier /\ phase = "mkdir"
  BY <1>1, <1>2, <1>6 DEF Copied, Pending, HasMeta, Copying, IsDir, IsFile
<1>7. CASE Barrier /\ phase # "mkdir"
  BY <1>1, <1>3, <1>7 DEF Copied, Pending, HasMeta, Copying, IsDir, IsFile
<1>8. ASSUME NextBatch, NEW b \in Batches, left' = left \ b, batch' = OfBatch(b),
             phase' = (IF batch' = {} THEN "batch" ELSE "create"),
             todo' = {q \in batch' : ~IsDir(src_list, q)}
      PROVE  /\ Pending(p)' <=> Pending(p)
             /\ IsFile(src, p) /\ Copied(p)' => Copied(p)
             /\ HasMeta(p)' => HasMeta(p)
             /\ p \in todo' => phase' # "mkdir" /\ (phase' = "create" => ~IsDir(src, p))
  BY <1>1, <1>4, <1>8 DEF Copied, Pending, HasMeta, Copying, IsDir, IsFile
<1>9. CASE /\ NextBatch /\ left = {}
           /\ phase' = (IF options.batch_files = 0 THEN "refresh" ELSE "meta_dirs")
           /\ todo' = ItemsOf(phase')
  BY <1>1, <1>5, <1>9 DEF Copied, Pending, HasMeta, Copying, IsDir, IsFile
<1> QED BY <1>6, <1>7, <1>8, <1>9 DEF NextBatch

CopiedInv ==
    Active /\ Smooth =>
        \A p \in src_cp_list :
            Copied(p) /\ IsFile(src, p) /\ IsFile(dst, p) => dst[p].bytes = src[p].bytes

\* No link stands where a file is to be copied, so the copy opens that very name.
LEMMA CopyReaches ==
  ASSUME IInv, PlanPart, Smooth, phase = "copy", NEW p \in todo
  PROVE  /\ p \in src_cp_list /\ p \in Paths /\ IsFile(src, p)
         /\ dst[p].type # "link" /\ Reached(dst, p) = p
<1>1. p \in src_cp_list /\ p \in Paths /\ IsFile(src_list, p)
  BY DEF IInv, TypeOK, TodoInv
<1>2. src_list = src
  BY DEF PlanPart, SnapInv, Smooth
<1>3. dst[p].type # "link"
  BY <1>1 DEF IInv, LinkInv, Smooth
<1> QED BY <1>1, <1>2, <1>3, ReachedPath

LEMMA ItemCopied ==
  ASSUME IInv, PlanPart, CopiedInv, NEW p \in Paths, ItemDoes(p)
  PROVE  CopiedInv'
<1> SUFFICES ASSUME Active', Smooth', NEW q \in src_cp_list', Copied(q)', IsFile(src, q)',
                    IsFile(dst, q)'
             PROVE  dst'[q].bytes = src'[q].bytes
  BY DEF CopiedInv
<1>1. /\ Smooth /\ Active /\ faults' = {} /\ phase' = phase /\ p \in todo /\ todo' = todo \ {p}
      /\ UNCHANGED <<options, src, src_list, src_cp_list, left, batch>>
      /\ q \in src_cp_list /\ q \in Paths
  BY DEF Smooth, Active, ItemDoes, Advance, run, lists, IInv, TypeOK
<1>2. src_list = src
  BY <1>1 DEF PlanPart, SnapInv, Smooth, Active
<1>3. IsFile(src, q) /\ dst'[q].type = "file"
  BY <1>1 DEF IsFile
<1>4. CASE CopyDoes(p)
  <2>1. phase = "copy" /\ Reached(dst, p) = p
    BY <1>1, <1>4, CopyReaches DEF CopyDoes
  <2>2. CASE q = p
    BY <1>1, <1>2, <1>3, <1>4, <2>1, <2>2 DEF CopyDoes, IsFile
  <2>3. CASE q # p
    <3>1. Copied(q)
      BY <1>1, <2>1, <2>3 DEF Copied
    <3>2. dst'[q] = dst[q]
      BY <1>1, <1>3, <1>4, <2>1, <2>3 DEF CopyDoes, Others, Dated
    <3> QED BY <1>1, <1>3, <3>1, <3>2 DEF CopiedInv, IsFile
  <2> QED BY <2>2, <2>3
<1>5. CASE phase \in {"meta", "meta_dirs", "refresh"} /\ \E perm, time : SetDoes(p, perm, time)
  <2>1. dst'[q].type = dst[q].type /\ dst'[q].bytes = dst[q].bytes
    BY <1>1, <1>5 DEF SetDoes
  <2> QED BY <1>1, <1>3, <1>5, <2>1 DEF CopiedInv, Copied, IsFile
<1>6. CASE CreateDoes(p)
  <2>1. phase = "create" /\ Copied(q) /\ q # p
    BY <1>1, <1>6 DEF CreateDoes, Copied, IInv, TodoInv
  <2>2. dst'[q] = dst[q]
    BY <1>1, <1>3, <1>6, <2>1 DEF CreateDoes, Others, Dated
  <2> QED BY <1>1, <1>3, <2>1, <2>2 DEF CopiedInv, IsFile
<1> QED BY <1>1, <1>4, <1>5, <1>6 DEF ItemDoes, Copied, UnlinkDoes, MakeDoes, OverwriteDoes

LEMMA PhaseCopied ==
  IInv /\ PlanPart /\ CopiedInv /\ (Compare \/ SyncFiles \/ DataDone \/ Barrier \/ NextBatch)
    => CopiedInv'
<1> SUFFICES ASSUME IInv, PlanPart, CopiedInv,
                    Compare \/ SyncFiles \/ DataDone \/ Barrier \/ NextBatch,
                    Active', Smooth', NEW q \in src_cp_list', Copied(q)', IsFile(src, q)',
                    IsFile(dst, q)'
             PROVE  dst'[q].bytes = src'[q].bytes
  BY DEF CopiedInv
<1>1. (Barrier \/ NextBatch) /\ Late
  BY FaultSeen DEF Compare, SyncFiles, DataDone, Finish, Active, Copied, NoFault, Smooth, Late,
     Barrier, NextBatch, Follows
<1>2. UNCHANGED <<dst, src, src_list, src_cp_list, options, faults>>
  BY <1>1 DEF Barrier, NextBatch, run
<1>3. Smooth /\ Active /\ src_list = src
  BY <1>1, <1>2 DEF Smooth, Active, Late, PlanPart, SnapInv
<1>4. Copied(q) /\ IsFile(src, q) /\ IsFile(dst, q)
  BY <1>1, <1>2, <1>3, PhaseProgress DEF IsFile
<1> QED BY <1>2, <1>3, <1>4 DEF CopiedInv

-----------------------------------------------------------------------------
(* What stands at the destination once the removals are done.                *)

\* An item to be copied, in its place or hindered by a directory that had to stay.
Placed(p) ==
    /\ p \in todo => /\ phase = "mkdir" => IsDir(src, p)
                     /\ phase = "create" => ~IsDir(src, p)
    /\ Pending(p) => Gone(p)
    /\ ~Pending(p) => dst[p].type = src[p].type \/ (~IsDir(src, p) /\ Gone(p) /\ IsDir(dst, p))
    /\ src[p].type = "link" /\ dst[p].type = "link" => dst[p].bytes = src[p].bytes
    /\ IsFile(src, p) /\ Copied(p) => dst[p].type = "file" /\ dst[p].size = src[p].size

LateInv ==
    Late /\ Smooth /\ rc = 0 /\ ~TopReplaced =>
        /\ \A p \in src_cp_list : Placed(p)
        /\ options.delete => Present(dst) \subseteq Present(src)

\* The removals are done.
LEMMA RemovedLate ==
  ASSUME IInv, PlanPart, UnlinkInv, Barrier, phase = "unlink_dirs", Smooth'
  PROVE  LateInv'
<1>1. /\ phase' = "mkdir" /\ todo = {} /\ todo' = {p \in src_cp_list : IsDir(src_list, p)}
      /\ UNCHANGED <<dst, src, options, dst0, src_cp_list, dst_remove_list, faults>>
  BY DEF Barrier, Follows, ItemsOf, run, lists
<1>2. Smooth /\ Active
  BY <1>1 DEF Smooth, Active
<1>3. src_list = src
  BY <1>2, PlanFacts
<1>4. \A p \in dst_remove_list : p \in Paths /\ Gone(p)
  BY <1>1, <1>2, PlanFacts DEF UnlinkInv
<1>5. \A p \in Paths \ dst_remove_list : dst[p].type = dst0[p].type
  BY <1>1, <1>2 DEF UnlinkInv
<1>6. ASSUME NEW p \in src_cp_list
      PROVE  Placed(p)'
  <2>1. p \in Paths /\ Gone(p)
    BY <1>2, <1>4, <1>5, PlanFacts DEF Gone
  <2>2. Gone(p)' /\ dst[p].type # "link"
    BY <1>1, <2>1 DEF Gone, Stuck, Present
  <2>3. Pending(p)' /\ ~Copied(p)' /\ (p \in todo' => IsDir(src, p))
    BY <1>1, <1>3 DEF Pending, Copied, IsDir
  <2> QED BY <1>1, <2>2, <2>3 DEF Placed, IsDir
<1>7. options.delete => Present(dst) \subseteq Present(src)
  <2> SUFFICES ASSUME options.delete, NEW p \in Present(dst), p \notin Present(src)
               PROVE  FALSE
    OBVIOUS
  <2>1. p \notin dst_remove_list
    BY <1>4 DEF Gone, Stuck, Present
  <2>2. p \in Present(dst0) \ Present(src)
    BY <1>5, <2>1 DEF Present
  <2> QED BY <1>1, <1>2, <2>1, <2>2, PlanFacts
<1> QED BY <1>1, <1>6, <1>7 DEF LateInv, Present

LEMMA PhaseLate ==
  IInv /\ PlanPart /\ UnlinkInv /\ LateInv
    /\ (Compare \/ SyncFiles \/ DataDone \/ Barrier \/ NextBatch) => LateInv'
<1> SUFFICES ASSUME IInv, PlanPart, UnlinkInv, LateInv,
                    Compare \/ SyncFiles \/ DataDone \/ Barrier \/ NextBatch,
                    Late', Smooth', rc' = 0, ~TopReplaced'
             PROVE  LateInv'
  BY DEF LateInv
<1>1. \/ Barrier /\ phase = "unlink_dirs"
      \/ (Barrier \/ NextBatch) /\ Late
  BY FaultSeen DEF Compare, SyncFiles, DataDone, Finish, Late, NoFault, Smooth, Barrier, Follows,
     NextBatch
<1>2. UNCHANGED <<dst, src, src_list, src_cp_list, options, dst0, faults, rc>>
  BY <1>1 DEF Barrier, NextBatch, run
<1>3. CASE Barrier /\ phase = "unlink_dirs"
  BY <1>3, RemovedLate
<1>4. CASE (Barrier \/ NextBatch) /\ Late
  <2>1. Smooth /\ rc = 0 /\ ~TopReplaced /\ src_list = src
    BY <1>2, <1>4 DEF Late, Smooth, PlanPart, SnapInv, TopReplaced
  <2>2. ASSUME NEW p \in src_cp_list
        PROVE  Placed(p)'
    <3>1. Placed(p) /\ (Gone(p)' <=> Gone(p))
      BY <1>2, <1>4, <2>1 DEF LateInv, Gone, Stuck, Present
    <3>2. /\ Pending(p)' <=> Pending(p)
          /\ IsFile(src, p) /\ Copied(p)' => Copied(p)
          /\ p \in todo' => phase' # "mkdir" /\ (phase' = "create" => ~IsDir(src, p))
      BY <1>4, <2>1, PhaseProgress
    <3> QED BY <1>2, <3>1, <3>2 DEF Placed, IsDir, IsFile
  <2> QED BY <1>2, <1>4, <2>1, <2>2 DEF LateInv, Present
<1> QED BY <1>1, <1>3, <1>4

LEMMA StaysPlaced ==
  ASSUME NEW q \in Paths, Placed(q), UNCHANGED <<phase, src, options, dst0, left, batch>>,
         q \in todo' <=> q \in todo,
         dst'[q].type = dst[q].type, dst'[q].size = dst[q].size, dst'[q].bytes = dst[q].bytes
  PROVE  Placed(q)'
<1>1. (Gone(q)' <=> Gone(q)) /\ (Pending(q)' <=> Pending(q)) /\ (Copied(q)' <=> Copied(q))
  BY DEF Gone, Stuck, Present, Pending, Copied, Copying, IsDir
<1> QED BY <1>1 DEF Placed, IsDir, IsFile

LEMMA ItemLate ==
  ASSUME IInv, PlanPart, LateInv, NEW p \in Paths, ItemDoes(p)
  PROVE  LateInv'
<1> SUFFICES ASSUME Late', Smooth', rc' = 0, ~TopReplaced' PROVE LateInv'
  BY DEF LateInv
<1>1. /\ Smooth /\ Active /\ Late /\ faults' = {} /\ phase' = phase
      /\ p \in todo /\ todo' = todo \ {p} /\ rc = 0 /\ ~TopReplaced
      /\ UNCHANGED <<options, src, dst0, src_list, src_cp_list, left, batch>>
  BY DEF Smooth, Active, Late, TopReplaced, ItemDoes, Advance, run, lists
<1>2. src_list = src
  BY <1>1, PlanFacts
<1>3. /\ \A q \in src_cp_list : Placed(q) /\ q \in Paths /\ src[q].type # "none"
      /\ options.delete => Present(dst) \subseteq Present(src)
  BY <1>1, PlanFacts DEF LateInv
<1>4. \A q \in Paths : Gone(q)' <=> dst'[q].type = "none" \/ (dst'[q].type = "dir" /\ Stuck(q))
  BY <1>1 DEF Gone, Stuck, Present
<1>5. ASSUME phase \in {"mkdir", "create", "copy"}, Others(dst', dst, p), Placed(p)'
      PROVE  LateInv'
  <2>1. \A q \in Paths \ {p} : /\ dst'[q].type = dst[q].type /\ dst'[q].size = dst[q].size
                               /\ dst'[q].bytes = dst[q].bytes
    BY <1>5 DEF Others, Dated
  <2>2. \A q \in src_cp_list : Placed(q)'
    BY <1>1, <1>3, <1>5, <2>1, StaysPlaced
  <2>3. p \in src_cp_list
    BY <1>1, <1>5 DEF IInv, TodoInv, Late
  <2>4. options.delete => Present(dst') \subseteq Present(src)
    BY <1>3, <2>1, <2>3 DEF Present
  <2> QED BY <1>1, <2>2, <2>4 DEF LateInv, Present
<1>6. dst' = dst => Others(dst', dst, p)
  BY DEF Others
<1>7. CASE MakeDoes(p)
  <2>1. phase = "mkdir" /\ p \in src_cp_list /\ Placed(p) /\ IsDir(src, p) /\ Gone(p)
    BY <1>1, <1>3, <1>7 DEF MakeDoes, IInv, TodoInv, Placed, Pending
  <2>2. ~IsDir(dst0, p) /\ dst[p].type = "none"
    BY <1>1, <2>1, PlanFacts DEF Gone, Stuck, IsDir
  <2>3. ~SkipsRoot(p)
    BY <1>1, <2>2 DEF SkipsRoot, TopReplaced, IsDir, Present
  <2>4. dst'[p] = New("dir") /\ Others(dst', dst, p)
    BY <1>1, <1>7, <2>2, <2>3 DEF MakeDoes, Present
  <2>5. Placed(p)'
    BY <1>1, <2>1, <2>4, NewEntry DEF Placed, Pending, Copied, Copying, IsDir, IsFile
  <2> QED BY <1>5, <2>1, <2>4, <2>5
<1>8. CASE CreateDoes(p)
  <2>1. phase = "create" /\ p \in src_cp_list /\ Placed(p) /\ ~IsDir(src, p) /\ Gone(p)
    BY <1>1, <1>3, <1>8 DEF CreateDoes, IInv, TodoInv, Placed, Pending
  <2>2. ~Pending(p)' /\ ~Copied(p)' /\ p \notin todo'
    BY <1>1, <2>1 DEF Pending, Copied, Copying, IInv, TodoInv, PassInv
  <2>3. CASE dst'[p] = NewItem(p) /\ Others(dst', dst, p)
    <3>1. src[p] \in Items /\ src[p].type \in {"file", "link"}
      BY <1>1, <1>2, <2>1, Listed DEF Items, IsDir
    <3>2. /\ dst'[p].type = src[p].type
          /\ src[p].type = "link" => dst'[p].bytes = src[p].bytes
      <4>1. CASE src[p].type = "link"
        <5>1. dst'[p] = [New("link") EXCEPT !.bytes = src[p].bytes, !.size = src[p].size]
          BY <1>2, <2>3, <4>1 DEF NewItem
        <5> QED BY <4>1, <5>1 DEF New
      <4>2. CASE src[p].type = "file"
        BY <1>2, <2>3, <4>2, NewEntry DEF NewItem
      <4> QED BY <3>1, <4>1, <4>2
    <3>3. Placed(p)'
      BY <1>1, <2>2, <3>2 DEF Placed
    <3> QED BY <1>5, <2>1, <2>3, <3>3
  <2>4. CASE dst' = dst /\ p \in Present(dst)
    <3>1. IsDir(dst, p) /\ Gone(p)
      BY <2>1, <2>4 DEF Gone, Present, IsDir
    <3>2. Placed(p)'
      BY <1>1, <1>4, <2>1, <2>2, <2>4, <3>1 DEF Placed, IsDir, Gone
    <3> QED BY <1>5, <1>6, <2>1, <2>4, <3>2
  <2> QED BY <1>8, <2>3, <2>4 DEF CreateDoes
<1>9. CASE CopyDoes(p)
  <2>1. /\ phase = "copy" /\ p \in src_cp_list /\ IsFile(src, p) /\ Reached(dst, p) = p
        /\ dst[p].type # "link" /\ Placed(p)
    BY <1>1, <1>3, <1>9, CopyReaches DEF CopyDoes
  <2>2. ~Pending(p) /\ ~Pending(p)'
    BY <1>1, <2>1 DEF Pending, Copying, IInv, TodoInv, PassInv
  <2>3. dst[p].type \in {"file", "dir"}
    BY <2>1, <2>2 DEF Placed, IsFile, IsDir
  <2>4. ~CanCreate(dst, p)
    BY <2>3 DEF CanCreate, Present
  <2>5. IsFile(dst, p)
    BY <1>1, <1>9, <2>1, <2>4 DEF CopyDoes
  <2>6. Others(dst', dst, p) /\ \E b \in Bytes : Written(dst'[p], src[p].size, b)
    BY <1>1, <1>2, <1>9, <2>1, <2>5 DEF CopyDoes
  <2>7. Placed(p)'
    BY <1>1, <2>1, <2>2, <2>6 DEF Placed, Written, IsFile
  <2> QED BY <1>5, <2>1, <2>6, <2>7
<1>10. CASE phase \in {"meta", "meta_dirs", "refresh"} /\ \E perm, time : SetDoes(p, perm, time)
  <2>1. \A q \in Paths : /\ dst'[q].type = dst[q].type /\ dst'[q].size = dst[q].size
                         /\ dst'[q].bytes = dst[q].bytes
    BY <1>10 DEF SetDoes
  <2>2. ASSUME NEW q \in src_cp_list
        PROVE  Placed(q)'
    <3>1. Placed(q) /\ q \in Paths
      BY <1>3
    <3>2. (Gone(q)' <=> Gone(q)) /\ (Pending(q)' <=> Pending(q)) /\ (Copied(q)' <=> Copied(q))
      BY <1>1, <1>4, <1>10, <2>1, <3>1 DEF Gone, Pending, Copied, Copying, IsDir
    <3> QED BY <1>1, <1>10, <2>1, <3>1, <3>2 DEF Placed, IsDir, IsFile
  <2>3. Present(dst') = Present(dst)
    BY <2>1 DEF Present
  <2> QED BY <1>1, <1>3, <2>2, <2>3 DEF LateInv, Present
<1> QED BY <1>1, <1>7, <1>8, <1>9, <1>10 DEF ItemDoes, Late, UnlinkDoes, OverwriteDoes

-----------------------------------------------------------------------------
(* What becomes of times and permissions.                                    *)

Settled == Smooth /\ rc = 0 /\ ~TopReplaced

\* What is left where it is has the source's data, or is compared; its permissions are
\* refreshed if they differ.
KeptInv ==
    Active /\ Smooth =>
        \A p \in Kept :
            /\ dst[p].type = src[p].type
            /\ IsFile(src, p) =>
                 /\ dst[p].size = src[p].size
                 /\ options.contents =>
                      dst[p].bytes = src[p].bytes \/ (phase = "data" /\ p \in todo)
                 /\ ~options.contents => /\ LooksDone(dst, p) /\ LooksDone(dst0, p)
                                         /\ dst[p].bytes = dst0[p].bytes
            /\ src[p].type # "link" /\ Settled =>
                 \/ dst[p].perm = src[p].perm
                 \/ /\ dst[p].perm = dst0[p].perm /\ p \in metadata_refresh
                    /\ phase = "refresh" => p \in todo

MetaInv ==
    Late /\ Settled =>
        \A p \in src_cp_list : HasMeta(p) /\ dst[p].type = src[p].type =>
            /\ dst[p].mtime = Stored(src[p].mtime)
            /\ src[p].type # "link" => dst[p].perm = src[p].perm

\* Setting the metadata of one item gives no other item its permissions.
LEMMA SetReaches ==
  ASSUME IInv, PlanPart, LateInv, KeptInv, Settled, phase \in {"meta", "meta_dirs", "refresh"},
         NEW p \in todo, src[p].type # "link"
  PROVE  Reached(dst, p) = p
<1>1. Late /\ Active /\ Smooth /\ rc = 0 /\ ~TopReplaced /\ p \in Paths
  BY DEF Late, Active, Settled, IInv, TypeOK
<1>2. p \in src_cp_list \/ p \in Kept
  <2>1. src_list = src /\ (p \in src_cp_list \/ p \in Present(src_list))
    BY <1>1, PlanFacts DEF IInv, TodoInv, ListsInv, Common
  <2> QED BY <1>1, <2>1, PlanFacts
<1>3. CASE p \in src_cp_list
  <2>1. Placed(p) /\ ~Pending(p)
    BY <1>1, <1>3 DEF LateInv, Pending, Copying, IInv, TodoInv, PassInv
  <2> QED BY <1>1, <2>1, ReachedPath DEF Placed, IsDir
<1>4. CASE p \in Kept
  BY <1>1, <1>4, ReachedPath DEF KeptInv
<1> QED BY <1>2, <1>3, <1>4

LEMMA ItemMeta ==
  ASSUME IInv, PlanPart, LateInv, KeptInv, MetaInv, NEW p \in Paths, ItemDoes(p)
  PROVE  MetaInv'
<1> SUFFICES ASSUME Late', Settled', NEW q \in src_cp_list', HasMeta(q)',
                    dst'[q].type = src'[q].type
             PROVE  /\ dst'[q].mtime = Stored(src'[q].mtime)
                    /\ src'[q].type # "link" => dst'[q].perm = src'[q].perm
  BY DEF MetaInv
<1>1. /\ Settled /\ Smooth /\ Active /\ Late /\ faults' = {} /\ phase' = phase
      /\ p \in todo /\ todo' = todo \ {p}
      /\ UNCHANGED <<src, src_list, src_cp_list, options, left, batch>> /\ q \in src_cp_list
  BY DEF Settled, Smooth, Active, Late, TopReplaced, ItemDoes, Advance, run, lists
<1>2. src_list = src /\ q \in Paths /\ src[q].type # "none"
  BY <1>1, PlanFacts
<1>3. CASE phase \in {"meta", "meta_dirs", "refresh"}
  <2>1. PICK perm, time : /\ SetDoes(p, perm, time)
                          /\ phase # "refresh" => perm = TRUE /\ time = TRUE
    BY <1>1, <1>3 DEF ItemDoes, UnlinkDoes, MakeDoes, CreateDoes, OverwriteDoes, CopyDoes
  <2>2. dst[q].type = src[q].type
    BY <1>1, <1>2, <2>1 DEF SetDoes
  <2>3. CASE q = p /\ phase # "refresh"
    <3>1. p \in Present(dst)
      BY <1>2, <2>2, <2>3 DEF Present
    <3> QED BY <1>1, <1>2, <2>1, <2>2, <2>3, <3>1 DEF SetDoes
  <2>4. CASE HasMeta(q)
    <3>1. /\ dst[q].mtime = Stored(src[q].mtime)
          /\ src[q].type # "link" => dst[q].perm = src[q].perm
      BY <1>1, <2>2, <2>4 DEF MetaInv
    <3>2. dst'[q].mtime = Stored(src[q].mtime)
      BY <1>2, <2>1, <3>1 DEF SetDoes
    <3>3. dst'[q].perm = dst[q].perm \/ dst'[q].perm = src[q].perm
      <4>1. CASE src[p].type = "link"
        BY <1>2, <2>1, <4>1 DEF SetDoes
      <4>2. CASE src[p].type # "link"
        <5>1. Reached(dst, p) = p
          BY <1>1, <1>3, <4>2, SetReaches
        <5> QED BY <1>2, <2>1, <5>1 DEF SetDoes
      <4> QED BY <4>1, <4>2
    <3> QED BY <1>1, <3>1, <3>2, <3>3
  <2> QED BY <1>1, <1>3, <2>3, <2>4 DEF HasMeta, Copying, IsDir
<1>4. CASE phase \in {"mkdir", "create", "copy"}
  <2>1. HasMeta(q) /\ phase # "mkdir" /\ q \notin batch
    BY <1>1, <1>4 DEF HasMeta, Copying, IsDir
  <2>2. p \in batch /\ ~IsDir(src, q)
    BY <1>1, <1>4, <2>1 DEF HasMeta, IInv, TodoInv, PassInv
  <2>3. Others(dst', dst, p)
    <3>1. CASE CreateDoes(p)
      BY <3>1 DEF CreateDoes, Others
    <3>2. CASE CopyDoes(p)
      <4>1. Reached(dst, p) = p
        BY <1>1, <3>2, CopyReaches DEF CopyDoes
      <4> QED BY <3>2, <4>1 DEF CopyDoes, Others
    <3> QED BY <1>4, <2>1, <3>1, <3>2 DEF ItemDoes, UnlinkDoes, MakeDoes, OverwriteDoes
  <2>4. dst'[q] = dst[q]
    BY <1>1, <1>2, <2>1, <2>2, <2>3 DEF Others, Dated, IsDir
  <2> QED BY <1>1, <2>1, <2>4 DEF MetaInv
<1>5. phase # "batch"
  BY <1>1 DEF IInv, PassInv
<1> QED BY <1>1, <1>3, <1>4, <1>5 DEF Late

LEMMA PhaseMeta ==
  IInv /\ PlanPart /\ MetaInv /\ (Compare \/ SyncFiles \/ DataDone \/ Barrier \/ NextBatch)
    => MetaInv'
<1> SUFFICES ASSUME IInv, PlanPart, MetaInv,
                    Compare \/ SyncFiles \/ DataDone \/ Barrier \/ NextBatch,
                    Late', Settled', NEW q \in src_cp_list', HasMeta(q)',
                    dst'[q].type = src'[q].type
             PROVE  /\ dst'[q].mtime = Stored(src'[q].mtime)
                    /\ src'[q].type # "link" => dst'[q].perm = src'[q].perm
  BY DEF MetaInv
<1>1. (Barrier \/ NextBatch) /\ Late
  BY FaultSeen DEF Compare, SyncFiles, DataDone, Finish, HasMeta, Copying, NoFault, Settled,
     Smooth, Late, Barrier, NextBatch, Follows
<1>2. UNCHANGED <<dst, src, src_list, src_cp_list, options, dst0, faults, rc>>
  BY <1>1 DEF Barrier, NextBatch, run
<1>3. Settled /\ src_list = src
  BY <1>1, <1>2 DEF Late, Settled, Smooth, TopReplaced, PlanPart, SnapInv
<1>4. HasMeta(q)
  BY <1>1, <1>2, <1>3, PhaseProgress
<1> QED BY <1>1, <1>2, <1>3, <1>4 DEF MetaInv

LEMMA CompareKept == IInv /\ PlanPart /\ Compare => KeptInv'
<1> SUFFICES ASSUME IInv, PlanPart, Compare, Smooth', NEW p \in Kept'
             PROVE  /\ dst'[p].type = src'[p].type
                    /\ IsFile(src, p)' =>
                         /\ dst'[p].size = src'[p].size
                         /\ options.contents' =>
                              dst'[p].bytes = src'[p].bytes \/ (phase' = "data" /\ p \in todo')
                         /\ ~options.contents' => /\ LooksDone(dst, p)' /\ LooksDone(dst0, p)'
                                                  /\ dst'[p].bytes = dst0'[p].bytes
                    /\ src'[p].type # "link" =>
                         \/ dst'[p].perm = src'[p].perm
                         \/ /\ dst'[p].perm = dst0'[p].perm /\ p \in metadata_refresh'
                            /\ phase' = "refresh" => p \in todo'
  BY DEF KeptInv
<1>1. /\ phase = "compare" /\ phase' = "data" /\ faults = {} /\ ~options.dry_run
      /\ UNCHANGED <<src, dst, dst0, options, src_list, dst_list>>
      /\ todo' = IF options.contents THEN CompareList ELSE {}
      /\ {q \in Common : MetadataDiffers(q)} \subseteq metadata_refresh'
  BY DEF Compare, run, Smooth
<1>2. src_list = src /\ dst_list = dst0 /\ dst = dst0 /\ StoredTimes(dst)
  BY <1>1 DEF PlanPart, SnapInv, FileSystemInv
<1>3. p \in Kept
  BY <1>1, SameLists DEF Kept
<1>4. /\ p \in Common /\ p \in Paths /\ src[p].type = dst0[p].type
      /\ IsFile(src, p) =>
           /\ dst0[p].size = src[p].size
           /\ options.contents => p \in CompareList
           /\ ~options.contents => dst0[p].mtime = src[p].mtime
  BY <1>2, <1>3, KeptFacts
<1>5. Stored(dst[p].mtime) = dst[p].mtime
  BY <1>2, <1>4 DEF StoredTimes, Common, Present
<1>6. dst[p].perm = src[p].perm \/ p \in metadata_refresh'
  BY <1>1, <1>2, <1>4 DEF MetadataDiffers
<1> QED BY <1>1, <1>2, <1>4, <1>5, <1>6 DEF LooksDone, IsFile

LEMMA PhaseKept ==
  IInv /\ PlanPart /\ KeptInv /\ (Compare \/ SyncFiles \/ DataDone \/ Barrier \/ NextBatch)
    => KeptInv'
<1> SUFFICES ASSUME IInv, PlanPart, KeptInv, SyncFiles \/ DataDone \/ Barrier \/ NextBatch,
                    Active', Smooth'
             PROVE  KeptInv'
  BY CompareKept DEF KeptInv
<1>1. /\ UNCHANGED <<src, dst, dst0, options, src_list, dst_list, metadata_refresh, faults>>
      /\ rc' = 0 => rc = 0
      /\ phase \notin {"data", "refresh"} \/ (phase = "data" /\ todo = {})
      /\ phase \in {"data", "sync"} \/ phase \in {"batch"} \cup DOMAIN Follows
      /\ phase' = "refresh" => todo' = metadata_refresh
      /\ phase' # "data"
  BY FaultSeen DEF SyncFiles, DataDone, Barrier, NextBatch, Finish, Follows, ItemsOf, NoFault, Succeeds,
     Fails, Active, Smooth, run, lists
<1>2. Active /\ Smooth /\ (Settled' => Settled) /\ Kept' = Kept
  BY <1>1, SameLists DEF Active, Smooth, Settled, TopReplaced, Kept, Follows
<1>3. \A p : (LooksDone(dst, p)' <=> LooksDone(dst, p)) /\ (LooksDone(dst0, p)' <=> LooksDone(dst0, p))
  BY <1>1 DEF LooksDone, IsFile
<1> QED BY <1>1, <1>2, <1>3 DEF KeptInv, IsFile

\* An item that is kept, in a step that works at another, or sets its metadata.
LEMMA ItemKept ==
  ASSUME IInv, PlanPart, LateInv, KeptInv, NEW p \in Paths, ItemDoes(p)
  PROVE  KeptInv'
<1> SUFFICES ASSUME Active', Smooth' PROVE KeptInv'
  BY DEF KeptInv
<1>1. /\ Smooth /\ Active /\ faults' = {} /\ phase' = phase
      /\ p \in todo /\ todo' = todo \ {p}
      /\ UNCHANGED <<options, src, dst0, src_list, dst_list, metadata_refresh>>
      /\ Settled' => Settled
  BY DEF Smooth, Active, Settled, TopReplaced, ItemDoes, Advance, run, lists
<1>2. /\ src_list = src /\ dst_list = dst0
      /\ \A q \in Kept : q \in Paths /\ q \notin src_cp_list /\ q \notin dst_remove_list
      /\ Kept' = Kept
  BY <1>1, PlanFacts, SameLists DEF Kept
<1>3. \A q : LooksDone(dst0, q)' <=> LooksDone(dst0, q)
  BY <1>1 DEF LooksDone, IsFile
<1>4. ASSUME \A q \in Kept : /\ dst'[q].type = dst[q].type /\ dst'[q].size = dst[q].size
                             /\ dst'[q].bytes = dst[q].bytes /\ dst'[q].perm = dst[q].perm
                             /\ IsFile(src, q) => dst'[q].mtime = dst[q].mtime,
             phase \notin {"data", "refresh"}
      PROVE  KeptInv'
  BY <1>1, <1>2, <1>3, <1>4 DEF KeptInv, LooksDone, IsFile
<1>5. ASSUME NEW r \in Paths, Others(dst', dst, r), r \notin Kept, phase \notin {"data", "refresh"}
      PROVE  KeptInv'
  <2>1. \A q \in Kept : dst[q].type = src[q].type
    BY <1>1 DEF KeptInv
  <2> QED BY <1>2, <1>4, <1>5, <2>1 DEF Others, Dated, IsFile
<1>6. dst' = dst => Others(dst', dst, p)
  BY DEF Others
<1>7. CASE UnlinkDoes(p)
  <2>1. p \in dst_remove_list
    BY <1>1, <1>7 DEF UnlinkDoes, IInv, TodoInv
  <2> QED BY <1>2, <1>5, <1>6, <1>7, <2>1 DEF UnlinkDoes
<1>8. CASE MakeDoes(p) \/ CreateDoes(p)
  <2>1. p \in src_cp_list
    BY <1>1, <1>8 DEF MakeDoes, CreateDoes, IInv, TodoInv
  <2> QED BY <1>2, <1>5, <1>6, <1>8, <2>1 DEF MakeDoes, CreateDoes
<1>9. CASE CopyDoes(p)
  <2>1. p \in src_cp_list /\ Reached(dst, p) = p
    BY <1>1, <1>9, CopyReaches DEF CopyDoes
  <2> QED BY <1>2, <1>5, <1>6, <1>9, <2>1 DEF CopyDoes
<1>10. CASE OverwriteDoes(p)
  <2>1. phase = "data" /\ p \in src_compare_list /\ options.contents
    BY <1>1, <1>10, PlanFacts DEF OverwriteDoes, IInv, TodoInv, PlanPart, PlanInv
  <2>2. \A q \in Paths : /\ dst'[q].type = dst[q].type /\ dst'[q].size = dst[q].size
                         /\ dst'[q].perm = dst[q].perm
                         /\ q # p => dst'[q].bytes = dst[q].bytes
                         /\ q = p => dst'[q].bytes = src[q].bytes
    BY <1>1, <1>2, <1>10 DEF OverwriteDoes, Smooth
  <2> QED BY <1>1, <1>2, <2>1, <2>2 DEF KeptInv, IsFile
<1>11. CASE phase \in {"meta", "meta_dirs"} /\ SetDoes(p, TRUE, TRUE)
  <2>1. p \in src_cp_list
    BY <1>1, <1>11 DEF IInv, TodoInv
  <2>2. \A q \in Kept : /\ dst'[q].type = dst[q].type /\ dst'[q].size = dst[q].size
                        /\ dst'[q].bytes = dst[q].bytes /\ dst'[q].mtime = dst[q].mtime
    BY <1>2, <1>11, <2>1 DEF SetDoes
  <2>3. Settled => \A q \in Kept : dst'[q].perm = dst[q].perm
    <3>1. CASE src[p].type = "link"
      BY <1>2, <1>11, <3>1 DEF SetDoes
    <3>2. CASE src[p].type # "link"
      <4> SUFFICES ASSUME Settled PROVE \A q \in Kept : dst'[q].perm = dst[q].perm
        OBVIOUS
      <4>1. Reached(dst, p) = p
        BY <1>1, <1>11, <3>2, SetReaches
      <4> QED BY <1>2, <1>11, <2>1, <4>1 DEF SetDoes
    <3> QED BY <3>1, <3>2
  <2> QED BY <1>1, <1>2, <1>3, <1>11, <2>2, <2>3 DEF KeptInv, LooksDone, IsFile
<1>12. CASE phase = "refresh" /\ SetDoes(p, PermDiffers(p), TimeDiffers(p))
  <2>1. \A q \in Kept : /\ dst'[q].type = dst[q].type /\ dst'[q].size = dst[q].size
                        /\ dst'[q].bytes = dst[q].bytes
                        /\ dst'[q].mtime = dst[q].mtime \/ dst'[q].mtime = Stored(src[q].mtime)
    BY <1>2, <1>12 DEF SetDoes
  <2>2. ASSUME Settled, NEW q \in Kept, src[q].type # "link"
        PROVE  \/ dst'[q].perm = src[q].perm
               \/ /\ dst'[q].perm = dst0[q].perm /\ q \in metadata_refresh /\ q \in todo'
    <3>1. \/ dst[q].perm = src[q].perm
          \/ dst[q].perm = dst0[q].perm /\ q \in metadata_refresh /\ q \in todo
      BY <1>1, <1>12, <2>2 DEF KeptInv
    <3>2. dst[q].type = src[q].type
      BY <1>1 DEF KeptInv
    <3>3. CASE q = p
      <4>1. p \in Present(dst) /\ dst[p].type # "link"
        BY <1>1, <1>2, <2>2, <3>2, <3>3, PlanFacts DEF Present
      <4>2. dst'[p].perm = dst[p].perm \/ dst'[p].perm = src[p].perm
        BY <1>2, <1>12 DEF SetDoes
      <4>3. PermDiffers(p) => dst'[p].perm = src[p].perm
        BY <1>1, <1>2, <1>12, <2>2, <3>3, <4>1 DEF SetDoes
      <4>4. ~PermDiffers(p) => dst0[p].perm = src[p].perm
        BY <1>2 DEF PermDiffers
      <4> QED BY <3>1, <3>3, <4>2, <4>3, <4>4
    <3>4. CASE q # p
      <4>1. dst'[q].perm = dst[q].perm
        <5>1. CASE src[p].type = "link"
          BY <1>2, <1>12, <5>1 DEF SetDoes
        <5>2. CASE src[p].type # "link"
          <6>1. Reached(dst, p) = p
            BY <1>1, <1>12, <2>2, <5>2, SetReaches
          <6> QED BY <1>2, <1>12, <3>4, <6>1 DEF SetDoes
        <5> QED BY <5>1, <5>2
      <4> QED BY <1>1, <3>1, <3>4, <4>1
    <3> QED BY <3>3, <3>4
  <2> QED BY <1>1, <1>2, <1>3, <1>12, <2>1, <2>2 DEF KeptInv, LooksDone, IsFile
<1> QED BY <1>7, <1>8, <1>9, <1>10, <1>11, <1>12 DEF ItemDoes

-----------------------------------------------------------------------------
(* A file that was being written.                                            *)

TornInv == faults = {} => TornNeverLooksDone

\* A file that carries the time of a change made by dsync does not look done.
LEMMA DatedNotDone ==
  ASSUME IInv, NEW p \in Paths, dst'[p].type = "file" => dst'[p].mtime = Now, src' = src
  PROVE  ~LooksDone(dst, p)'
<1>1. IsFile(src, p) => Stored(src[p].mtime) # Now
  BY FileSystemAssumption DEF IInv, TypeOK, IsFile
<1> QED BY <1>1 DEF LooksDone, IsFile

\* A step that leaves every file alone but one, which it dates.
LEMMA DatedTorn ==
  ASSUME IInv, TornNeverLooksDone, NEW p \in Paths, Others(dst', dst, p),
         dst'[p].type = "file" => dst'[p].mtime = Now, UNCHANGED <<src, dst0>>
  PROVE  TornNeverLooksDone'
<1> SUFFICES ASSUME NEW q \in Paths, LooksDone(dst, q)'
             PROVE  \/ dst'[q].bytes = src'[q].bytes
                    \/ LooksDone(dst0, q)' /\ Data(dst'[q]) = Data(dst0'[q])
  BY DEF TornNeverLooksDone
<1>1. q # p
  BY DatedNotDone
<1>2. dst'[q] = dst[q]
  BY <1>1 DEF Others, Dated, LooksDone, IsFile
<1>3. LooksDone(dst, q) /\ (LooksDone(dst0, q)' <=> LooksDone(dst0, q))
  BY <1>2 DEF LooksDone, IsFile
<1> QED BY <1>2, <1>3 DEF TornNeverLooksDone

LEMMA ItemTorn ==
  ASSUME IInv, PlanPart, CopiedInv, KeptInv, TornInv, NEW p \in Paths, ItemDoes(p),
         PlanPart'
  PROVE  TornInv'
<1> SUFFICES ASSUME faults' = {} PROVE TornNeverLooksDone'
  BY DEF TornInv
<1>1. /\ faults = {} /\ Active /\ TornNeverLooksDone /\ phase' = phase
      /\ p \in todo /\ UNCHANGED <<src, dst0, options, src_list>>
  BY DEF TornInv, Active, ItemDoes, Advance, run, lists, UnlinkDoes, MakeDoes, CreateDoes,
     OverwriteDoes, CopyDoes
<1>2. CASE options.dry_run
  <2>1. dst' = dst0'
    BY <1>1, <1>2 DEF PlanPart, DryKeeps
  <2> QED BY <2>1 DEF TornNeverLooksDone
<1>3. CASE ~options.dry_run
  <2>1. Smooth /\ src_list = src
    BY <1>1, <1>3, PlanFacts DEF Smooth
  <2>2. dst' = dst => Others(dst', dst, p)
    BY DEF Others
  <2>3. CASE dst' = dst
    BY <1>1, <2>3 DEF TornNeverLooksDone, LooksDone, IsFile
  <2>4. CASE UnlinkDoes(p)
    BY <1>1, <2>3, <2>4, DatedTorn, EntryTypes DEF UnlinkDoes
  <2>5. CASE MakeDoes(p)
    BY <1>1, <2>3, <2>5, DatedTorn, NewEntry DEF MakeDoes
  <2>6. CASE CreateDoes(p)
    <3>1. NewItem(p).mtime = Now
      BY DEF NewItem, New
    <3> QED BY <1>1, <2>3, <2>6, <3>1, DatedTorn DEF CreateDoes
  <2>7. CASE OverwriteDoes(p)
    <3>1. Others(dst', dst, p)
      BY <2>7 DEF OverwriteDoes, Others
    <3> QED BY <1>1, <2>3, <2>7, <3>1, DatedTorn DEF OverwriteDoes
  <2>8. CASE CopyDoes(p)
    <3>1. Reached(dst, p) = p
      BY <1>1, <2>1, <2>8, CopyReaches DEF CopyDoes
    <3> QED BY <1>1, <2>3, <2>8, <3>1, DatedTorn DEF CopyDoes, Written
  <2>9. CASE phase \in {"meta", "meta_dirs", "refresh"} /\ \E perm, time : SetDoes(p, perm, time)
    <3> SUFFICES ASSUME NEW q \in Paths, LooksDone(dst, q)'
                 PROVE  \/ dst'[q].bytes = src'[q].bytes
                        \/ LooksDone(dst0, q)' /\ Data(dst'[q]) = Data(dst0'[q])
      BY DEF TornNeverLooksDone
    <3>1. /\ dst'[q].type = dst[q].type /\ dst'[q].size = dst[q].size
          /\ dst'[q].bytes = dst[q].bytes
          /\ q # p => dst'[q].mtime = dst[q].mtime
      BY <2>9 DEF SetDoes
    <3>2. (LooksDone(dst0, q)' <=> LooksDone(dst0, q)) /\ Data(dst'[q]) = Data(dst[q])
          /\ IsFile(src, q) /\ IsFile(dst, q)
      BY <1>1, <3>1 DEF LooksDone, IsFile, Data
    <3>3. CASE LooksDone(dst, q)
      BY <1>1, <3>1, <3>2, <3>3 DEF TornNeverLooksDone
    <3>4. CASE q = p
      <4>1. p \in src_cp_list \/ p \in Kept
        <5>1. p \in Present(src)
          BY <3>2, <3>4 DEF Present, IsFile
        <5> QED BY <1>1, <2>1, <5>1, PlanFacts
      <4>2. CASE p \in src_cp_list
        <5>1. Copied(p)
          BY <1>1, <2>9 DEF Copied, Copying, IInv, TodoInv, PassInv
        <5> QED BY <1>1, <2>1, <3>1, <3>2, <3>4, <4>2, <5>1 DEF CopiedInv
      <4>3. CASE p \in Kept
        <5>1. \/ dst[p].bytes = src[p].bytes
              \/ LooksDone(dst, p)
          BY <1>1, <2>1, <2>9, <3>2, <3>4, <4>3 DEF KeptInv
        <5> QED BY <1>1, <3>1, <3>3, <3>4, <5>1
      <4> QED BY <4>1, <4>2, <4>3
    <3>5. CASE q # p
      <4>1. LooksDone(dst, q)
        BY <1>1, <3>1, <3>5 DEF LooksDone, IsFile
      <4> QED BY <3>3, <4>1
    <3> QED BY <3>4, <3>5
  <2> QED BY <2>4, <2>5, <2>6, <2>7, <2>8, <2>9 DEF ItemDoes
<1> QED BY <1>2, <1>3

LEMMA CrashTorn == IInv /\ TornInv /\ Crash => TornInv'
<1> SUFFICES ASSUME IInv, TornInv, Crash, faults' = {} PROVE TornNeverLooksDone'
  BY DEF TornInv
<1>1. TornNeverLooksDone /\ UNCHANGED <<src, dst0>>
  BY CrashFields DEF TornInv, run
<1>2. CASE dst' = dst
  BY <1>1, <1>2 DEF TornNeverLooksDone, LooksDone, IsFile
<1> QED BY <1>1, <1>2, CrashFields, DatedTorn

\* The destination at the start of a run is what that run is judged by.
LEMMA QuietTorn ==
  ASSUME TornInv, dst' = dst, src' = src, dst0' = dst0 \/ dst0' = dst',
         dst0' # dst' => faults \subseteq faults'
  PROVE  TornInv'
<1>1. CASE dst0' = dst'
  BY <1>1 DEF TornInv, TornNeverLooksDone, LooksDone, IsFile
<1>2. CASE dst0' # dst'
  BY <1>2 DEF TornInv, TornNeverLooksDone, LooksDone, IsFile
<1> QED BY <1>1, <1>2

-----------------------------------------------------------------------------
(* What a run leaves when it ends.                                           *)

\* A successful run that is about to end has brought every item in line.
LEMMA DoneInSync ==
  ASSUME IInv, PlanPart, CopiedInv, LateInv, KeptInv, MetaInv, Settled,
         phase = "refresh", todo = {}, NEW p \in Present(src)
  PROVE  /\ InSync(p) \/ Blocked(p)
         /\ p \in src_cp_list /\ ~Blocked(p) => dst[p].mtime = Stored(src[p].mtime)
<1>1. Late /\ Active /\ Smooth /\ rc = 0 /\ ~TopReplaced /\ p \in Paths
  BY DEF Late, Active, Settled, Present
<1>2. CASE p \in src_cp_list
  <2>1. Placed(p) /\ ~Pending(p) /\ Copied(p) /\ HasMeta(p)
    BY <1>1, <1>2 DEF LateInv, Pending, Copied, HasMeta, Copying
  <2>2. dst[p].type = src[p].type \/ (~IsDir(src, p) /\ Gone(p) /\ IsDir(dst, p))
    BY <2>1 DEF Placed
  <2>3. CASE dst[p].type = src[p].type
    <3>1. dst[p].mtime = Stored(src[p].mtime) /\ (src[p].type # "link" => dst[p].perm = src[p].perm)
      BY <1>1, <1>2, <2>1, <2>3 DEF MetaInv
    <3>2. IsFile(src, p) => dst[p].size = src[p].size /\ dst[p].bytes = src[p].bytes
      BY <1>1, <1>2, <2>1, <2>3 DEF Placed, CopiedInv, IsFile
    <3>3. src[p].type = "link" => dst[p].bytes = src[p].bytes
      BY <2>1, <2>3 DEF Placed
    <3> QED BY <2>3, <3>1, <3>2, <3>3 DEF InSync
  <2>4. CASE dst[p].type # src[p].type
    <3>1. ~IsDir(src, p) /\ ~IsFile(src, p) /\ IsDir(dst, p) /\ Stuck(p)
      BY <2>1, <2>2, <2>4 DEF Placed, IsFile, IsDir, Gone
    <3>2. src[p].type = "link"
      <4>1. src[p] \in Items
        BY <1>1, <1>2, Listed, PlanFacts
      <4> QED BY <3>1, <4>1 DEF Items, IsDir, IsFile
    <3>3. PICK c \in Paths \ {Root} : ParentOf[c] = p /\ c \in Present(dst0) \ Present(src)
      BY <3>1 DEF Stuck
    <3>4. Data(dst[c]) = Data(dst0[c])
      BY <1>1, <3>1, <3>3 DEF IInv, KeepsExtraneous, Stuck, Smooth
    <3>5. c \in Present(dst)
      BY <3>3, <3>4 DEF Data, Absent, Present
    <3>6. Blocked(p)
      BY <3>1, <3>2, <3>3, <3>5 DEF Blocked, HasChildren, Stuck
    <3> QED BY <3>6
  <2> QED BY <2>3, <2>4
<1>3. CASE p \in Kept
  <2>1. p \notin src_cp_list /\ dst0[p].type = src[p].type
    BY <1>1, <1>3, PlanFacts
  <2>2. dst[p].type = src[p].type /\ (src[p].type # "link" => dst[p].perm = src[p].perm)
    BY <1>1, <1>3 DEF KeptInv
  <2>3. IsFile(src, p) =>
           /\ dst[p].size = src[p].size
           /\ dst[p].bytes = src[p].bytes \/ (~options.contents /\ LooksDone(dst0, p))
           /\ ~options.contents => dst[p].mtime = Stored(src[p].mtime)
    BY <1>1, <1>3 DEF KeptInv, LooksDone
  <2> QED BY <2>1, <2>2, <2>3 DEF InSync
<1> QED BY <1>1, <1>2, <1>3, PlanFacts

LEMMA DoneConverged ==
  IInv /\ PlanPart /\ CopiedInv /\ LateInv /\ KeptInv /\ MetaInv /\ Done
    => Converged' /\ CopiedMetadata'
<1> SUFFICES ASSUME IInv, PlanPart, CopiedInv, LateInv, KeptInv, MetaInv, Done,
                    Clean', ~TopReplaced'
             PROVE  Converged' /\ CopiedMetadata'
  BY DEF Converged, CopiedMetadata
<1>1. /\ UNCHANGED <<src, dst, dst0, options, src_cp_list>>
      /\ phase = "refresh" /\ todo = {} /\ Settled
  <2>1. rc = 0
    BY DEF Done, Finish, Clean, IInv, TypeOK
  <2> QED BY <2>1 DEF Done, Clean, Settled, Smooth, TopReplaced, run, lists
<1>2. Late /\ Active /\ Smooth
  BY <1>1 DEF Late, Active, Settled
<1>3. \A p \in Present(src) : InSync(p) \/ Blocked(p)
  BY <1>1, DoneInSync
<1>4. \A p : (InSync(p)' <=> InSync(p)) /\ (Blocked(p)' <=> Blocked(p))
  BY <1>1 DEF InSync, Blocked, LooksDone, IsFile, IsDir, HasChildren, Present
<1>5. options.delete => Present(dst) = Present(src)
  <2>1. options.delete => Present(dst) \subseteq Present(src)
    BY <1>1, <1>2 DEF LateInv, Settled
  <2>2. \A p \in Present(src) : options.delete => p \in Present(dst)
    BY <1>3 DEF Present, InSync, Blocked
  <2> QED BY <2>1, <2>2
<1>6. Converged'
  BY <1>1, <1>3, <1>4, <1>5 DEF Converged, Present
<1>7. \A p \in src_cp_list : p \in Present(src)
  BY <1>2, PlanFacts DEF Present
<1>8. \A p \in src_cp_list : ~Blocked(p) => dst[p].mtime = Stored(src[p].mtime)
  BY <1>1, <1>7, DoneInSync
<1>9. CopiedMetadata'
  <2>1. \A p \in src_cp_list : p \in Paths
    BY <1>2, PlanFacts
  <2> QED BY <1>1, <1>4, <1>8, <2>1 DEF CopiedMetadata
<1> QED BY <1>6, <1>9

-----------------------------------------------------------------------------
(* All of it is inductive.                                                   *)

RunInv == /\ PlanPart /\ UnlinkInv /\ CopiedInv /\ LateInv /\ KeptInv /\ MetaInv /\ TornInv
          /\ Converged /\ CopiedMetadata

LEMMA InitRun == Init => RunInv
<1> SUFFICES ASSUME Init PROVE RunInv
  OBVIOUS
<1>1. UnlinkInv /\ CopiedInv /\ LateInv /\ KeptInv /\ MetaInv
  BY DEF Init, UnlinkInv, CopiedInv, LateInv, KeptInv, MetaInv, Active, Late
<1>2. TornInv
  BY DEF Init, TornInv, TornNeverLooksDone
<1>3. Converged /\ CopiedMetadata
  BY DEF Init, Converged, CopiedMetadata, Clean, Ended
<1> QED BY <1>1, <1>2, <1>3, InitPlan DEF RunInv

\* A step into a phase with nothing to say about the phases of the copy.
LEMMA OutsideRun ==
  ASSUME phase' \in {"idle", "walk_src", "walk_dst", "compare"}
  PROVE  UnlinkInv' /\ CopiedInv' /\ LateInv' /\ KeptInv' /\ MetaInv'
  BY DEF UnlinkInv, CopiedInv, LateInv, KeptInv, MetaInv, Active, Late

\* A step that ends no run, or one that is not clean.
LEMMA NotClean ==
  ASSUME ~Clean'
  PROVE  Converged' /\ CopiedMetadata'
  BY DEF Converged, CopiedMetadata

LEMMA StutterRun == RunInv /\ UNCHANGED vars => RunInv'
<1> SUFFICES ASSUME RunInv, UNCHANGED vars PROVE RunInv'
  OBVIOUS
<1> USE DEF vars, lists
<1>1. \A p : (LooksDone(dst, p)' <=> LooksDone(dst, p)) /\ (LooksDone(dst0, p)' <=> LooksDone(dst0, p))
  BY DEF LooksDone, IsFile
<1>2. (Settled' <=> Settled) /\ (Smooth' <=> Smooth) /\ (Active' <=> Active) /\ (Late' <=> Late)
      /\ (TopReplaced' <=> TopReplaced) /\ Kept' = Kept
  BY SameLists DEF Settled, Smooth, Active, Late, TopReplaced, Kept
<1>3. \A p : (Gone(p)' <=> Gone(p)) /\ (Pending(p)' <=> Pending(p)) /\ (Copied(p)' <=> Copied(p))
             /\ (HasMeta(p)' <=> HasMeta(p))
  BY DEF Gone, Stuck, Present, Pending, Copied, HasMeta, Copying, IsDir
<1>4. PlanPart'
  BY <1>2, SameLists DEF RunInv, PlanPart, FileSystemInv, InDirectories, StoredTimes, DryKeeps,
     SnapInv, PlanInv
<1>5. UnlinkInv' /\ CopiedInv'
  BY <1>2, <1>3 DEF RunInv, UnlinkInv, CopiedInv, IsDir, IsFile
<1>6. LateInv'
  <2>1. \A p : Placed(p)' <=> Placed(p)
    BY <1>3 DEF Placed, IsDir, IsFile
  <2> QED BY <1>2, <2>1 DEF RunInv, LateInv, Present
<1>7. KeptInv' /\ MetaInv'
  BY <1>1, <1>2, <1>3 DEF RunInv, KeptInv, MetaInv, IsFile
<1>8. TornInv'
  BY <1>1 DEF RunInv, TornInv, TornNeverLooksDone
<1>9. Converged' /\ CopiedMetadata'
  <2>1. \A p : (InSync(p)' <=> InSync(p)) /\ (Blocked(p)' <=> Blocked(p))
    BY <1>1 DEF InSync, Blocked, IsFile, IsDir, HasChildren, Present
  <2>2. Clean' <=> Clean
    BY DEF Clean, Ended
  <2> QED BY <1>2, <2>1, <2>2 DEF RunInv, Converged, CopiedMetadata, Present
<1> QED BY <1>4, <1>5, <1>6, <1>7, <1>8, <1>9 DEF RunInv

LEMMA ItemRun ==
  ASSUME IInv, RunInv, NEW p \in Paths, Item(p)
  PROVE  RunInv'
<1> USE DEF RunInv
<1>1. ItemDoes(p) /\ PlanPart'
  BY ItemPlan
<1>2. UnlinkInv' /\ CopiedInv' /\ LateInv' /\ KeptInv' /\ MetaInv' /\ TornInv'
  BY <1>1, ItemUnlink, ItemCopied, ItemLate, ItemKept, ItemMeta, ItemTorn
<1>3. phase' # "idle"
  BY <1>1 DEF ItemDoes, Advance, UnlinkDoes, MakeDoes, CreateDoes, OverwriteDoes, CopyDoes
<1>4. Converged' /\ CopiedMetadata'
  BY <1>3, NotClean DEF Clean, Ended
<1> QED BY <1>1, <1>2, <1>4

LEMMA NextRun == IInv /\ RunInv /\ [Next]_vars => RunInv'
<1> SUFFICES ASSUME IInv, RunInv, Next PROVE RunInv'
  BY StutterRun
<1> USE DEF RunInv
<1>1. CASE Start
  <2>1. phase' \in {"idle", "walk_src"} /\ dst' = dst /\ src' = src /\ dst0' = dst'
        /\ ~Clean'
    BY <1>1 DEF Start, Clean, Ended
  <2> QED BY <1>1, <2>1, StartPlan, OutsideRun, NotClean, QuietTorn
<1>2. CASE WalkSrc \/ WalkDst
  <2>1. /\ phase' \in {"idle", "walk_dst", "compare"} /\ UNCHANGED <<src, dst, dst0>>
        /\ faults \subseteq faults' /\ ~Clean'
    BY <1>2, FaultSeen DEF WalkSrc, WalkDst, Clean, Ended, NoFault, run
  <2> QED BY <1>2, <2>1, WalkPlan, OutsideRun, NotClean, QuietTorn
<1>3. CASE Compare \/ SyncFiles
  <2>1. phase' # "idle" /\ UNCHANGED <<src, dst, dst0>> /\ faults \subseteq faults'
    BY <1>3, FaultSeen DEF Compare, SyncFiles, NoFault, run
  <2>2. ~Clean'
    BY <2>1 DEF Clean, Ended
  <2> QED BY <1>3, <2>1, <2>2, ComparePlan, SyncPlan, CompareUnlink, SyncUnlink, PhaseCopied,
             PhaseLate, PhaseKept, PhaseMeta, NotClean, QuietTorn
<1>4. CASE DataDone \/ Barrier \/ NextBatch
  <2>1. UNCHANGED <<src, dst, dst0, options, faults>> /\ ~Clean'
    BY <1>4 DEF DataDone, Barrier, NextBatch, Finish, Follows, Clean, Ended, run
  <2> QED BY <1>4, <2>1, PhasePlan, PhaseUnlink, PhaseCopied, PhaseLate, PhaseKept, PhaseMeta,
             NotClean, QuietTorn
<1>5. CASE Done
  <2>1. UNCHANGED <<src, dst, dst0, faults>> /\ phase' = "idle"
    BY <1>5 DEF Done, Finish, run
  <2> QED BY <1>5, <2>1, PhasePlan, OutsideRun, DoneConverged, QuietTorn
<1>6. CASE Crash
  <2>1. phase' = "idle" /\ ~Clean'
    BY <1>6, CrashFields DEF Clean
  <2> QED BY <1>6, <2>1, CrashPlan, OutsideRun, NotClean, CrashTorn
<1>7. ASSUME NEW p \in Paths, Item(p) PROVE RunInv'
  BY <1>7, ItemRun
<1> QED BY <1>1, <1>2, <1>3, <1>4, <1>5, <1>6, <1>7 DEF Next, Step

\* Both invariants hold in every run.
THEOREM RunsAreInOrder == Spec => [](IInv /\ RunInv)
<1>1. Init => IInv /\ RunInv
  BY InitInv, InitRun
<1>2. IInv /\ RunInv /\ [Next]_vars => IInv' /\ RunInv'
  BY NextInv, NextRun
<1> QED BY <1>1, <1>2, PTL DEF Spec

-----------------------------------------------------------------------------
(* What follows from them.                                                   *)

\* A run that succeeds and meets no failure brings the destination in line with the
\* source, whatever earlier runs, killed ones among them, have left there.
THEOREM RunsConverge == Spec => []Converged
<1>1. RunInv => Converged
  BY DEF RunInv
<1> QED BY <1>1, RunsAreInOrder, PTL

\* What such a run copied ends with the source's times.
THEOREM CopiesKeepTimes == Spec => []CopiedMetadata
<1>1. RunInv => CopiedMetadata
  BY DEF RunInv
<1> QED BY <1>1, RunsAreInOrder, PTL

\* While no operation fails, a file that an interrupted run left half written has not
\* got the source's size and time.
THEOREM TornFilesShow == Spec => [](faults = {} => TornNeverLooksDone)
<1>1. RunInv => (faults = {} => TornNeverLooksDone)
  BY DEF RunInv, TornInv
<1> QED BY <1>1, RunsAreInOrder, PTL

-----------------------------------------------------------------------------
(* A repetition: a run that follows one which succeeded, on a destination    *)
(* with a directory at the top, finds nothing to do.                         *)

\* What a run that succeeds leaves: nothing that the next one would find to be done.
SettledItem(t, p) ==
    /\ t[p].type = src[p].type
    /\ IsFile(src, p) =>
         /\ t[p].size = src[p].size
         /\ IF options.contents THEN t[p].bytes = src[p].bytes ELSE t[p].mtime = src[p].mtime
    /\ src[p].type # "link" => t[p].perm = src[p].perm
HeldLink(t, p) ==
    src[p].type = "link" /\ IsDir(t, p) /\ HasChildren(t, p) /\ ~options.delete
NothingLeft(t) ==
    /\ \A p \in Present(src) : SettledItem(t, p) \/ HeldLink(t, p)
    /\ options.delete => Present(t) = Present(src)

Live == ~options.dry_run /\ options.parent_writable
Repeats == prev = "0" /\ IsDir(dst0, Root) /\ Live

\* No run makes a directory of a top that was something else, and none gets under way
\* below a parent that cannot be written.
TopInv == /\ TopReplaced => ~IsDir(dst, Root)
          /\ runs = 0 => exit = "none" /\ phase = "idle"
          /\ phase # "idle" => options.parent_writable \/ options.dry_run

SettledInv == Repeats => NothingLeft(dst0)

\* The lists of a repetition hold no items but links that cannot replace a directory,
\* and files to be compared that are the same.
Held == {p \in Present(src) : HeldLink(dst0, p)}
SameBytes == {p \in Present(src) : dst0[p].type = src[p].type /\ dst0[p].bytes = src[p].bytes}
QuietInv ==
    Repeats /\ phase # "idle" =>
        /\ phase # "walk_src" => src_list = src
        /\ phase \notin {"walk_src", "walk_dst"} => dst_list = dst0
        /\ phase \in {"walk_src", "walk_dst", "compare"} => dst = dst0
        /\ \A p \in Paths : Shape(dst[p]) = Shape(dst0[p])
        /\ Active => /\ src_cp_list \subseteq Held /\ dst_remove_list \subseteq Held
                     /\ src_compare_list \subseteq SameBytes

RepeatInv == TopInv /\ SettledInv /\ QuietInv

LEMMA ShapeOfTime ==
  ASSUME NEW t \in Trees, NEW p \in Paths, NEW x \in Nat \X Nat, NEW q \in Paths
  PROVE  Shape([t EXCEPT ![p].mtime = x][q]) = Shape(t[q])
<1> DEFINE i == [t[p] EXCEPT !.mtime = x]
<1>1. [t EXCEPT ![p].mtime = x] = [t EXCEPT ![p] = i] /\ t[p] \in Entry
  BY DEF Trees, Entry
<1>2. Shape(i) = Shape(t[p])
  <2>1. CASE t[p] \in Items
    <3>1. /\ i.type = t[p].type /\ i.size = t[p].size /\ i.bytes = t[p].bytes
          /\ i.perm = t[p].perm
      BY <2>1 DEF Items
    <3> QED BY <3>1 DEF Shape
  <2>2. CASE t[p] = Absent
    <3>1. i.type = "none"
      BY <2>2 DEF Absent
    <3> QED BY <2>2, <3>1 DEF Shape, Absent
  <2> QED BY <1>1, <2>1, <2>2 DEF Entry
<1> HIDE DEF i
<1> QED BY <1>1, <1>2 DEF Trees

LEMMA SameShape ==
  ASSUME NEW i, NEW j, Shape(i) = Shape(j)
  PROVE  /\ i.type = j.type
         /\ j.type # "none" => i.size = j.size /\ i.bytes = j.bytes /\ i.perm = j.perm
<1> DEFINE whole(k) == [type |-> k.type, size |-> k.size, bytes |-> k.bytes, perm |-> k.perm]
<1>1. \A k : whole(k) # Absent
  <2>1. \A k : DOMAIN whole(k) # DOMAIN Absent
    BY DEF Absent
  <2> QED BY <2>1
<1>2. \A k : Shape(k) = IF k.type = "none" THEN Absent ELSE whole(k)
  BY DEF Shape
<1>3. \A k, l : whole(k) = whole(l) =>
         k.type = l.type /\ k.size = l.size /\ k.bytes = l.bytes /\ k.perm = l.perm
  OBVIOUS
<1> HIDE DEF whole
<1> QED BY <1>1, <1>2, <1>3

\* Setting the time changes no shape, nor does setting permissions that are there already.
LEMMA SetQuiet ==
  ASSUME dst \in Trees, NEW p \in Paths, src_list[p] \in Items, NEW perm, NEW time,
         perm /\ src_list[p].type # "link" =>
            dst[p].type = src_list[p].type /\ dst[p].perm = src_list[p].perm
  PROVE  \A q \in Paths : Shape(Set(p, perm, time)[q]) = Shape(dst[q])
<1>1. perm => WithPerm(dst, p) = dst
  <2>1. CASE src_list[p].type = "link"
    BY <2>1 DEF WithPerm
  <2>2. CASE perm /\ src_list[p].type # "link"
    <3>1. Reached(dst, p) = p
      BY <2>2 DEF Reached
    <3>2. [dst EXCEPT ![p].perm = src_list[p].perm] = dst
      <4>1. dst[p] \in Items
        BY <2>2 DEF Trees, Absent, Items
      <4>2. [dst[p] EXCEPT !.perm = src_list[p].perm] = dst[p]
        BY <2>2, <4>1 DEF Items
      <4> QED BY <4>2 DEF Trees
    <3> QED BY <3>1, <3>2 DEF WithPerm
  <2> QED BY <2>1, <2>2
<1>2. Set(p, perm, time) \in {dst, WithTime(dst, p)}
  BY <1>1 DEF Set
<1>3. Stored(src_list[p].mtime) \in Nat \X Nat
  BY Times DEF Items
<1>4. \A q \in Paths : Shape(WithTime(dst, p)[q]) = Shape(dst[q])
  BY <1>3, ShapeOfTime DEF WithTime
<1> QED BY <1>2, <1>4

\* An item of a list of a repetition is as it was found.
LEMMA HeldFacts ==
  ASSUME IInv, QuietInv, Repeats, Active
  PROVE  /\ dst \in Trees /\ src \in Trees /\ src_list = src /\ dst_list = dst0
         /\ \A p \in Paths : dst[p].type = dst0[p].type
         /\ \A p \in Held : /\ p \in Paths /\ p \in Present(dst) /\ src[p].type = "link"
                            /\ src[p] \in Items /\ ~CanRemove(dst, p)
         /\ \A p \in SameBytes : dst[p].bytes = src[p].bytes
<1>1. /\ dst \in Trees /\ src \in Trees /\ src_list = src /\ dst_list = dst0
      /\ \A p \in Paths : Shape(dst[p]) = Shape(dst0[p])
  BY TreeAssumption DEF IInv, TypeOK, QuietInv, Active
<1>2. \A p \in Paths : /\ dst[p].type = dst0[p].type
                       /\ dst0[p].type # "none" => dst[p].bytes = dst0[p].bytes
  BY <1>1, SameShape
<1>3. ASSUME NEW p \in Held
      PROVE  /\ p \in Paths /\ p \in Present(dst) /\ src[p].type = "link"
             /\ src[p] \in Items /\ ~CanRemove(dst, p)
  <2>1. /\ p \in Paths /\ src[p].type = "link" /\ IsDir(dst0, p) /\ HasChildren(dst0, p)
    BY <1>3 DEF Held, HeldLink, Present
  <2>2. IsDir(dst, p) /\ HasChildren(dst, p) /\ p \in Present(dst)
    BY <1>2, <2>1, TreeAssumption DEF IsDir, HasChildren, Present
  <2>3. src[p] \in Items
    BY <1>1, <2>1 DEF Trees, Absent
  <2> QED BY <2>1, <2>2, <2>3 DEF CanRemove
<1>4. \A p \in SameBytes : dst[p].bytes = src[p].bytes
  BY <1>2 DEF SameBytes, Present
<1> QED BY <1>1, <1>2, <1>3, <1>4

\* What a step of a repetition does to one item changes no shape.
LEMMA ItemQuiet ==
  ASSUME IInv, SettledInv, QuietInv, Repeats, NEW p \in Paths, Item(p)
  PROVE  \A q \in Paths : Shape(dst'[q]) = Shape(dst[q])
<1>1. phase \in ItemPhases /\ Active /\ p \in todo
  BY ItemEffect DEF Effect, ItemPhases, Active
<1>2. /\ src_cp_list \subseteq Held /\ dst_remove_list \subseteq Held
      /\ src_compare_list \subseteq SameBytes
  BY <1>1 DEF QuietInv, Active
<1>3. CASE CompareData(p)
  <2>1. phase = "data"
    BY <1>3 DEF CompareData
  <2>2. p \in SameBytes
    BY <1>1, <1>2, <2>1 DEF IInv, TodoInv
  <2>3. dst[p].bytes = src_list[p].bytes
    BY <1>1, <2>2, HeldFacts
  <2>4. dst' = dst
    BY <1>3, <2>3 DEF CompareData
  <2> QED BY <2>4
<1>4. CASE Unlink(p)
  <2>1. phase \in {"unlink_files", "unlink_dirs"}
    BY <1>4 DEF Unlink
  <2>2. p \in Held
    BY <1>1, <1>2, <2>1 DEF IInv, TodoInv
  <2>3. dst' = dst
    BY <1>1, <1>4, <2>2, HeldFacts DEF Unlink
  <2> QED BY <2>3
<1>5. CASE MakeDirectory(p) \/ CreateItem(p)
  <2>1. phase \in {"mkdir", "create"}
    BY <1>5 DEF MakeDirectory, CreateItem
  <2>2. p \in Held
    BY <1>1, <1>2, <2>1 DEF IInv, TodoInv
  <2>3. p \in Present(dst)
    BY <1>1, <2>2, HeldFacts
  <2>4. dst' = dst
    BY <1>5, <2>3 DEF MakeDirectory, CreateItem, CanCreate
  <2> QED BY <2>4
<1>6. ~CopyData(p)
  <2>1. SUFFICES ASSUME phase = "copy" PROVE FALSE
    BY DEF CopyData
  <2>2. p \in Held /\ IsFile(src_list, p)
    BY <1>1, <1>2, <2>1 DEF IInv, TodoInv
  <2> QED BY <1>1, <2>2, HeldFacts DEF IsFile
<1>7. ASSUME NEW perm, NEW time, dst' = Set(p, perm, time) \/ dst' \in SetSome(p, perm, time),
             src_list[p] \in Items,
             src_list[p].type # "link" =>
                dst[p].type = src_list[p].type /\ dst[p].perm = src_list[p].perm
      PROVE  \A q \in Paths : Shape(dst'[q]) = Shape(dst[q])
  <2>1. PICK b, c : dst' = Set(p, b, c)
    BY <1>7 DEF SetSome
  <2> QED BY <1>1, <1>7, <2>1, HeldFacts, SetQuiet
<1>8. CASE SetMetadata(p)
  <2>1. phase \in {"meta", "meta_dirs"}
    BY <1>8 DEF SetMetadata
  <2>2. p \in Held
    BY <1>1, <1>2, <2>1 DEF IInv, TodoInv
  <2>3. src_list[p] \in Items /\ src_list[p].type = "link"
    BY <1>1, <2>2, HeldFacts
  <2>4. \/ dst' = Set(p, TRUE, TRUE) \/ dst' \in SetSome(p, TRUE, TRUE)
        \/ dst' = dst
    BY <1>8 DEF SetMetadata
  <2> QED BY <1>7, <2>3, <2>4
<1>9. CASE RefreshMetadata(p)
  <2>1. phase = "refresh"
    BY <1>9 DEF RefreshMetadata
  <2>2. p \in Common
    BY <1>1, <2>1 DEF IInv, TodoInv, ListsInv
  <2>3. p \in Present(src) /\ src_list = src /\ src[p] \in Items
    BY <1>1, <2>2, HeldFacts DEF Common, Present, Trees, Absent
  <2>4. SettledItem(dst0, p) \/ src[p].type = "link"
    BY <2>3 DEF SettledInv, NothingLeft, HeldLink
  <2>5. Shape(dst[p]) = Shape(dst0[p])
    BY <1>1 DEF QuietInv, Active
  <2>6. src[p].type # "link" => dst[p].type = src[p].type /\ dst[p].perm = src[p].perm
    BY <2>3, <2>4, <2>5, SameShape DEF SettledItem, Present
  <2>7. \/ dst' = Set(p, PermDiffers(p), TimeDiffers(p))
        \/ dst' \in SetSome(p, PermDiffers(p), TimeDiffers(p))
        \/ dst' = dst
    BY <1>9 DEF RefreshMetadata
  <2> QED BY <1>7, <2>3, <2>6, <2>7
<1> QED BY <1>3, <1>4, <1>5, <1>6, <1>8, <1>9 DEF Item

LEMMA ItemTop ==
  ASSUME IInv, InDirectories(dst), NEW p \in Paths, Item(p), TopReplaced, ~IsDir(dst, Root)
  PROVE  ~IsDir(dst', Root)
<1>1. Root \in Paths /\ Root \in Present(dst0)
  BY TreeAssumption DEF TopReplaced, Present
<1>2. ItemDoes(p)
  BY ItemFields
<1>3. ASSUME NEW q \in Paths, Others(dst', dst, q), dst'[q].type # "dir" \/ q # Root
      PROVE  ~IsDir(dst', Root)
  BY <1>1, <1>3 DEF Others, Dated, IsDir
<1>4. CASE UnlinkDoes(p)
  BY <1>3, <1>4 DEF UnlinkDoes, Absent
<1>5. CASE MakeDoes(p)
  <2>1. phase = "mkdir"
    BY <1>5 DEF MakeDoes
  <2>2. MakeDirectory(p)
    BY <2>1 DEF Item, CompareData, Unlink, CreateItem, CopyData, SetMetadata, RefreshMetadata
  <2>3. p = Root => dst' = dst
    BY <1>1, <2>2 DEF MakeDirectory, SkipsRoot
  <2> QED BY <1>3, <1>5, <2>3 DEF MakeDoes
<1>6. CASE CreateDoes(p)
  <2>1. NewItem(p).type # "dir"
    BY NewEntry DEF NewItem, New
  <2> QED BY <1>3, <1>6, <2>1 DEF CreateDoes
<1>7. CASE OverwriteDoes(p)
  BY <1>1, <1>7 DEF OverwriteDoes, IsDir
<1>8. CASE CopyDoes(p)
  <2>1. Reached(dst, p) \in Paths
    BY ReachedPath
  <2> QED BY <1>3, <1>8, <2>1 DEF CopyDoes, Written
<1>9. ASSUME NEW perm, NEW time, SetDoes(p, perm, time)
      PROVE  ~IsDir(dst', Root)
  BY <1>1, <1>9 DEF SetDoes, IsDir
<1> QED BY <1>2, <1>4, <1>5, <1>6, <1>7, <1>8, <1>9 DEF ItemDoes

LEMMA TopNext == IInv /\ RunInv /\ TopInv /\ [Next]_vars => TopInv'
<1> SUFFICES ASSUME IInv, RunInv, TopInv, Next PROVE TopInv'
  BY DEF vars, TopInv, TopReplaced, IsDir
<1>1. runs \in Nat
  BY BoundsAssumption DEF IInv, TypeOK
<1>2. CASE Start
  BY <1>1, <1>2 DEF Start, TopInv, TopReplaced, IsDir
<1>3. phase # "idle" => runs # 0
  BY DEF TopInv
<1>4. ASSUME phase # "idle", UNCHANGED run, TopReplaced /\ ~IsDir(dst, Root) => ~IsDir(dst', Root)
      PROVE  TopInv'
  BY <1>3, <1>4 DEF TopInv, TopReplaced, run
<1>5. CASE Crash
  <2>1. phase # "idle" /\ UNCHANGED run
    BY <1>5 DEF Crash
  <2>2. ~IsDir(dst, Root) => ~IsDir(dst', Root)
    BY <1>5, CrashFields, TreeAssumption DEF Others, Dated, IsDir
  <2> QED BY <1>4, <2>1, <2>2
<1>6. CASE WalkSrc \/ WalkDst \/ Compare \/ DataDone \/ SyncFiles \/ Barrier \/ NextBatch \/ Done
  <2>1. phase # "idle"
    BY <1>6 DEF WalkSrc, WalkDst, Compare, DataDone, SyncFiles, Barrier, NextBatch, Done, Follows
  <2>2. UNCHANGED run /\ dst' = dst
    BY <1>6 DEF WalkSrc, WalkDst, Compare, DataDone, SyncFiles, Barrier, NextBatch, Done
  <2> QED BY <1>4, <2>1, <2>2
<1>7. ASSUME NEW p \in Paths, Item(p)
      PROVE  TopInv'
  <2>1. phase # "idle" /\ UNCHANGED run
    BY <1>7, ItemEffect DEF Effect, ItemPhases
  <2>2. TopReplaced /\ ~IsDir(dst, Root) => ~IsDir(dst', Root)
    BY <1>7, ItemTop DEF RunInv, PlanPart, FileSystemInv
  <2> QED BY <1>4, <2>1, <2>2
<1> QED BY <1>2, <1>5, <1>6, <1>7 DEF Next, Step

\* Only failures that the exit status shows can happen, and the destination can store
\* the times of the source.
Dependable == Faults \subseteq Reported /\ \A t \in SrcTrees : StoredTimes(t)

\* A run that succeeds leaves the destination settled.
LEMMA SettledNow ==
  ASSUME Dependable, IInv, RunInv, TopInv, phase = "idle", exit = "0", Live, IsDir(dst, Root)
  PROVE  NothingLeft(dst)
<1>1. Clean
  <2>1. runs > 0
    BY BoundsAssumption DEF IInv, TypeOK, TopInv
  <2>2. faults = {}
    BY <2>1 DEF Dependable, IInv, TypeOK, FailureReported, Ended
  <2> QED BY <2>1, <2>2 DEF Clean, Ended, Live
<1>2. /\ \A p \in Present(src) : InSync(p) \/ Blocked(p)
      /\ options.delete => Present(dst) = Present(src)
  BY <1>1 DEF TopInv, RunInv, Converged
<1>3. ASSUME NEW p \in Present(src)
      PROVE  SettledItem(dst, p) \/ HeldLink(dst, p)
  <2>1. Stored(src[p].mtime) = src[p].mtime
    BY <1>3 DEF Dependable, StoredTimes, IInv, TypeOK, Present
  <2>2. InSync(p) => SettledItem(dst, p)
    BY <2>1 DEF InSync, SettledItem
  <2> QED BY <1>2, <1>3, <2>2 DEF Blocked, HeldLink
<1> QED BY <1>2, <1>3 DEF NothingLeft

\* The comparison of a settled destination with the source finds nothing to do.
LEMMA NothingToDo ==
  ASSUME IInv, NothingLeft(dst0), src_list = src, dst_list = dst0
  PROVE  /\ OnlySrc = {} /\ Replaced \subseteq Held /\ Extraneous = {}
         /\ options.contents => CompareList \subseteq SameBytes
<1>1. src \in Trees /\ dst0 \in Trees
  BY TreeAssumption DEF IInv, TypeOK
<1>2. ASSUME NEW p \in Present(src)
      PROVE  SettledItem(dst0, p) \/ p \in Held
  BY <1>2 DEF NothingLeft, Held
<1>3. \A p \in Held : p \in Present(dst0) /\ src[p].type = "link" /\ IsDir(dst0, p)
  BY DEF Held, HeldLink, Present, IsDir
<1>4. OnlySrc = {}
  BY <1>2, <1>3 DEF OnlySrc, Present, SettledItem
<1>5. ASSUME NEW p \in Common, SettledItem(dst0, p)
      PROVE  p \notin Replaced /\ (p \in HaveContents /\ options.contents => p \in SameBytes)
  <2>1. p \in Present(src) /\ ~TypeDiffers(p)
    BY <1>5 DEF Common, SettledItem, TypeDiffers
  <2>2. p \in HaveContents => IsFile(src, p)
    BY <1>5 DEF HaveContents, SettledItem, IsFile
  <2>3. p \in HaveContents => ~SizeDiffers(p)
    BY <1>5, <2>2 DEF SettledItem, SizeDiffers
  <2>4. p \in HaveContents /\ ~options.contents => ~LiteDiffers(p)
    BY <1>5, <2>2 DEF SettledItem, LiteDiffers
  <2>5. p \in HaveContents /\ options.contents => p \in SameBytes
    BY <1>5, <2>1, <2>2 DEF SettledItem, SameBytes
  <2> QED BY <2>1, <2>3, <2>4, <2>5 DEF Replaced, CompareList
<1>6. Replaced \subseteq Common /\ CompareList \subseteq HaveContents /\ HaveContents \subseteq Common
  BY DEF Replaced, CompareList, HaveContents
<1>7. Common \subseteq Present(src)
  BY DEF Common
<1>8. \A p \in Held : p \notin HaveContents
  BY <1>3 DEF HaveContents, IsFile, IsDir
<1>9. Extraneous = {}
  BY DEF Extraneous, OnlyDst, NothingLeft
<1> QED BY <1>2, <1>4, <1>5, <1>6, <1>7, <1>8, <1>9

\* Steps that change neither the destination nor the lists of a repetition.
LEMMA QuietStays ==
  ASSUME QuietInv, phase # "idle",
         UNCHANGED <<run, src_list, dst_list, src_cp_list, dst_remove_list, src_compare_list>>,
         \A p \in Paths : Shape(dst'[p]) = Shape(dst[p]),
         phase' # "idle" => Active /\ Active'
  PROVE  QuietInv'
<1> SUFFICES ASSUME Repeats', phase' # "idle" PROVE QuietInv'
  BY DEF QuietInv
<1>1. Repeats /\ Held' = Held /\ SameBytes' = SameBytes /\ Active /\ Active'
  BY DEF run, Repeats, Live, IsDir, Held, SameBytes, HeldLink, HasChildren, Present
<1> QED BY <1>1 DEF QuietInv, Active, run

LEMMA QuietPhases ==
  ASSUME Dependable, IInv, SettledInv, QuietInv,
         WalkSrc \/ WalkDst \/ Compare \/ SyncFiles
  PROVE  QuietInv'
<1> SUFFICES ASSUME Repeats', phase' # "idle" PROVE QuietInv'
  BY DEF QuietInv
<1>1. /\ Repeats /\ Held' = Held /\ SameBytes' = SameBytes /\ dst' = dst /\ dst0' = dst0
      /\ src' = src /\ options' = options /\ phase # "idle"
  BY DEF WalkSrc, WalkDst, Compare, SyncFiles, run, Repeats, Live, IsDir, Held, SameBytes,
         HeldLink, HasChildren, Present
<1>2. /\ src \in Trees /\ dst \in Trees /\ NothingLeft(dst0)
      /\ \A p \in Paths : Shape(dst'[p]) = Shape(dst0'[p])
  BY <1>1, TreeAssumption DEF IInv, TypeOK, SettledInv, QuietInv
<1>3. ~Fault("walk_src") /\ ~Fault("walk_dst")
  BY DEF Fault, Dependable, Reported
<1>4. CASE WalkSrc
  <2>1. phase = "walk_src" /\ phase' = "walk_dst" /\ src_list' = src
    BY <1>2, <1>3, <1>4, WalkedAll DEF WalkSrc
  <2> QED BY <1>1, <1>2, <2>1 DEF QuietInv, Active
<1>5. CASE WalkDst
  <2>1. /\ phase = "walk_dst" /\ phase' = "compare" /\ dst_list' = dst /\ src_list' = src_list
    BY <1>2, <1>3, <1>5, WalkedAll DEF WalkDst
  <2> QED BY <1>1, <1>2, <2>1 DEF QuietInv, Active
<1>6. CASE Compare
  <2>1. /\ phase = "compare" /\ phase' = "data" /\ src_list = src /\ dst_list = dst0
        /\ UNCHANGED <<src_list, dst_list>>
    BY <1>1, <1>6 DEF Compare, QuietInv
  <2>2. /\ src_cp_list' \subseteq Held /\ dst_remove_list' \subseteq Held
        /\ src_compare_list' \subseteq SameBytes
    BY <1>2, <1>6, <2>1, NothingToDo DEF Compare
  <2> QED BY <1>1, <1>2, <2>1, <2>2 DEF QuietInv, Active
<1>7. CASE SyncFiles
  <2>1. /\ phase = "sync" /\ src_list = src /\ dst_list = dst0 /\ Active
        /\ UNCHANGED <<src_list, dst_list, src_cp_list, src_compare_list>>
    BY <1>1, <1>7 DEF SyncFiles, QuietInv, Active
  <2>2. phase' \in {"unlink_files", "refresh"} /\ dst_remove_list' = dst_remove_list
    BY <1>2, <1>7, <2>1, NothingToDo DEF SyncFiles
  <2> QED BY <1>1, <1>2, <2>1, <2>2 DEF QuietInv, Active
<1> QED BY <1>4, <1>5, <1>6, <1>7

\* A killed repetition has written nothing either: it had nothing to write.
LEMMA CrashQuiet ==
  ASSUME IInv, QuietInv, Repeats, Crash
  PROVE  dst' = dst
<1>1. SUFFICES ASSUME phase \in {"copy", "data"} PROVE dst' = dst
  BY DEF Crash
<1>2. Active /\ src_cp_list \subseteq Held /\ src_compare_list \subseteq SameBytes
  BY <1>1 DEF QuietInv, Active
<1>3. phase = "copy" => todo = {}
  BY <1>2, HeldFacts DEF IInv, TodoInv, IsFile
<1>4. phase = "data" => \A p \in todo : dst[p].bytes = src_list[p].bytes
  BY <1>2, HeldFacts DEF IInv, TodoInv
<1> QED BY <1>1, <1>3, <1>4 DEF Crash

LEMMA RepeatNext ==
  Dependable /\ IInv /\ RunInv /\ RepeatInv /\ [Next]_vars
    => /\ RepeatInv'
       /\ prev = "0" /\ IsDir(dst0, Root) => \A p \in Paths : Shape(dst'[p]) = Shape(dst[p])
<1> SUFFICES ASSUME Dependable, IInv, RunInv, RepeatInv, [Next]_vars
             PROVE  /\ RepeatInv'
                    /\ prev = "0" /\ IsDir(dst0, Root)
                         => \A p \in Paths : Shape(dst'[p]) = Shape(dst[p])
  OBVIOUS
<1>1. TopInv'
  BY TopNext DEF RepeatInv
<1>2. CASE UNCHANGED vars
  <2>1. QuietInv' /\ SettledInv'
    BY <1>2 DEF vars, lists, run, RepeatInv, QuietInv, SettledInv, Repeats, Live, NothingLeft,
       SettledItem, HeldLink, Held, SameBytes, HasChildren, Present, IsDir, IsFile, Active
  <2> QED BY <1>1, <1>2, <2>1 DEF RepeatInv, vars
<1>3. CASE Start
  <2>1. /\ phase = "idle" /\ phase' \in {"walk_src", "idle"} /\ prev' = exit /\ dst' = dst
        /\ dst0' = dst /\ UNCHANGED <<options, src>>
    BY <1>3 DEF Start
  <2>2. NothingLeft(dst)' <=> NothingLeft(dst)
    BY <2>1 DEF NothingLeft, SettledItem, HeldLink, HasChildren, Present, IsDir, IsFile
  <2>3. NothingLeft(dst0)' <=> NothingLeft(dst)
    BY <2>1, <2>2 DEF NothingLeft, SettledItem, HeldLink, HasChildren, Present, IsDir, IsFile
  <2>4. SettledInv'
    <3>1. Repeats' => exit = "0" /\ Live /\ IsDir(dst, Root)
      BY <2>1 DEF Repeats, Live, IsDir
    <3> QED BY <2>1, <2>3, <3>1, SettledNow DEF SettledInv, RepeatInv
  <2>5. QuietInv'
    BY <2>1 DEF QuietInv, Active
  <2> QED BY <1>1, <2>1, <2>4, <2>5 DEF RepeatInv
<1>4. ASSUME UNCHANGED run, QuietInv'
      PROVE  RepeatInv'
  <2>1. SettledInv'
    BY <1>4 DEF run, RepeatInv, SettledInv, Repeats, Live, NothingLeft, SettledItem, HeldLink,
                HasChildren, Present, IsDir, IsFile
  <2> QED BY <1>1, <1>4, <2>1 DEF RepeatInv
<1>5. CASE WalkSrc \/ WalkDst \/ Compare \/ SyncFiles
  <2>1. UNCHANGED run /\ dst' = dst
    BY <1>5 DEF WalkSrc, WalkDst, Compare, SyncFiles
  <2> QED BY <1>4, <1>5, <2>1, QuietPhases DEF RepeatInv
<1>6. CASE DataDone \/ Barrier \/ NextBatch \/ Done
  <2>1. /\ UNCHANGED run /\ dst' = dst /\ phase # "idle"
        /\ UNCHANGED <<src_list, dst_list, src_cp_list, dst_remove_list, src_compare_list>>
    BY <1>6 DEF DataDone, Barrier, NextBatch, Done, Follows, lists
  <2>2. phase' # "idle" => Active /\ Active'
    BY <1>6 DEF DataDone, Barrier, NextBatch, Done, Follows, Finish, Active
  <2>3. QuietInv'
    BY <2>1, <2>2, QuietStays DEF RepeatInv
  <2> QED BY <1>4, <2>1, <2>3
<1>7. ASSUME Live \/ dst' = dst, Repeats => \A p \in Paths : Shape(dst'[p]) = Shape(dst[p])
      PROVE  prev = "0" /\ IsDir(dst0, Root) => \A p \in Paths : Shape(dst'[p]) = Shape(dst[p])
  BY <1>7 DEF Repeats
<1>8. phase # "idle" => Live \/ dst' = dst
  BY NextInv DEF RepeatInv, TopInv, Live
<1>9. CASE Crash
  <2>1. UNCHANGED run /\ phase # "idle" /\ phase' = "idle"
    BY <1>9 DEF Crash
  <2>2. QuietInv'
    BY <2>1 DEF QuietInv
  <2>3. Repeats => dst' = dst
    BY <1>9, CrashQuiet DEF RepeatInv
  <2> QED BY <1>4, <1>7, <1>8, <2>1, <2>2, <2>3
<1>10. ASSUME NEW p \in Paths, Item(p)
       PROVE  /\ RepeatInv'
              /\ prev = "0" /\ IsDir(dst0, Root)
                   => \A q \in Paths : Shape(dst'[q]) = Shape(dst[q])
  <2>1. /\ UNCHANGED run /\ phase # "idle" /\ Active /\ Active'
        /\ UNCHANGED <<src_list, dst_list, src_cp_list, dst_remove_list, src_compare_list>>
    BY <1>10, ItemEffect DEF Effect, ItemPhases, Active, lists
  <2>2. Repeats => \A q \in Paths : Shape(dst'[q]) = Shape(dst[q])
    BY <1>10, ItemQuiet DEF RepeatInv
  <2>3. QuietInv'
    <3>1. CASE Repeats
      BY <2>1, <2>2, <3>1, QuietStays DEF RepeatInv
    <3>2. CASE ~Repeats
      BY <2>1, <3>2 DEF QuietInv, Repeats, Live, run, IsDir
    <3> QED BY <3>1, <3>2
  <2> QED BY <1>4, <1>7, <1>8, <2>1, <2>2, <2>3
<1> QED BY <1>2, <1>3, <1>5, <1>6, <1>9, <1>10 DEF Next, Step

\* Where only failures can happen that the exit status shows, and the destination can
\* store the times of the source: a run after a successful one changes the type, size,
\* bytes and permissions of nothing, whatever fails in it and wherever it is killed.
THEOREM RepetitionsAreQuiet ==
  ASSUME Dependable
  PROVE  Spec => RepeatIsQuiet
<1>1. Init => IInv /\ RunInv /\ RepeatInv
  <2>1. Init => RepeatInv
    BY DEF Init, RepeatInv, TopInv, SettledInv, QuietInv, Repeats, TopReplaced, IsDir
  <2> QED BY <2>1, InitInv, InitRun
<1>2. IInv /\ RunInv /\ RepeatInv /\ [Next]_vars
        => /\ IInv' /\ RunInv' /\ RepeatInv'
           /\ [prev = "0" /\ IsDir(dst0, Root)
                 => \A p \in Paths : Shape(dst'[p]) = Shape(dst[p])]_vars
  BY NextInv, NextRun, RepeatNext
<1> QED BY <1>1, <1>2, PTL DEF Spec, RepeatIsQuiet
=============================================================================
