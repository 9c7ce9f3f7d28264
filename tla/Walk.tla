-------------------------------- MODULE Walk --------------------------------
(* mfu_flist_walk.c: the ranks list the trees below some paths.  The paths   *)
(* still to be looked at are in the pool of libcircle, of which any rank     *)
(* takes any (WorkPool).  The callbacks stat every item (walk_stat_create    *)
(* and walk_stat_process), or go by what readdir says of it and stat as      *)
(* little as they can (walk_readdir_create and walk_readdir_process); the    *)
(* ones that use getdents are not installed by the code.  A rank's callback  *)
(* and another's interleave between directory entries.                       *)
(*                                                                           *)
(* A path is the sequence of its names, relative to the directory ROOT, all  *)
(* of one character.  The items below are of three kinds; tree.shut are the  *)
(* directories without the user's read and execute bits, tree.fixed those    *)
(* without the write bit, tree.bad what cannot be read for other reasons,    *)
(* and tree.typed says whether readdir tells the type of an entry.           *)
EXTENDS Integers, Sequences, FiniteSets, Bags

CONSTANTS
    Trees,          \* the file systems walked
    TopLists,       \* the lists of paths given
    Walkers,        \* the ranks
    WalkOptions,    \* records of useStat, dirPerms, remove, dereference
    PathLimit,      \* CIRCLE_MAX_STRING_LEN
    LinkLimit       \* how many links the system follows in a path

ROOT == 0
NONE == -1

\* A path of exactly PathLimit characters would be cut; names of one character
\* give paths of an odd length.
WalkAssumption == PathLimit % 2 = 0 /\ LinkLimit \in Nat

VARIABLES
    tree, options, tops,    \* what is walked, the options and the paths given
    opened,                 \* directories whose bits the walk has set
    gone,                   \* entries removed, <<directory, name>>
    created,                \* how many of tops walk_readdir_create has looked at
    pool,                   \* the paths enqueued, a bag
    at,                     \* what each rank is doing
    listed,                 \* the file list: a bag of <<path, kind>>
    logged,                 \* paths for which an error is printed
    unread                  \* for the property only: a bag of the paths of the
                            \* entries that a listing broken off has not read

vars == <<tree, options, tops, opened, gone, created, pool, at, listed, logged, unread>>

-----------------------------------------------------------------------------
(* The file system                                                           *)

Kind(n) == tree.kind[n]
IsDir(n) == n # NONE /\ Kind(n) = "dir"
Shut(n) == n \in tree.shut \ opened
Entries(n) == {e \in DOMAIN tree.kids[n] : <<n, e>> \notin gone}

\* Where a path ends: the item, links not followed at the end of the path, and
\* the number of links followed before.
RECURSIVE Followed(_), Reached(_)
Front(p) == SubSeq(p, 1, Len(p) - 1)
Followed(x) ==
    IF x.node = NONE \/ Kind(x.node) # "link" THEN x
    ELSE IF x.links = LinkLimit THEN [x EXCEPT !.node = NONE]
    ELSE Followed([node |-> tree.to[x.node], links |-> x.links + 1])
Entered(d, e) ==
    IF IsDir(d.node) /\ ~Shut(d.node) /\ e \in Entries(d.node)
    THEN [d EXCEPT !.node = tree.kids[d.node][e]]
    ELSE [d EXCEPT !.node = NONE]
Reached(p) ==
    IF p = <<>> THEN [node |-> ROOT, links |-> 0]
    ELSE CHOOSE x \in {Entered(Followed(d), p[Len(p)]) : d \in {Reached(Front(p))}} : TRUE

Readable(n) == IF n \in tree.bad THEN NONE ELSE n
Lstat(p) == Readable(Reached(p).node)
Stat(p) == Readable(Followed(Reached(p)).node)
Parent(p) == Followed(Reached(Front(p))).node

\* unlink: fails without a word when the directory cannot be written.
Unlink(p) ==
    gone' = IF Parent(p) \in tree.fixed \cup {NONE} THEN gone
            ELSE gone \cup {<<Parent(p), p[Len(p)]>>}

Chmod(n) == opened' = opened \cup {n}

-----------------------------------------------------------------------------
(* Helpers                                                                   *)

Length(p) == 2 * Len(p) - 1

\* build_path: the path of an entry, or <<>> when it is too long.
BuildPath(dir, name) ==
    IF Length(Append(dir, name)) > PathLimit THEN <<>> ELSE Append(dir, name)

One(x) == SetToBag({x})
RemovesAll(n) == options.remove    \* mutant
Removes(n) == options.remove /\ ~IsDir(n)
Insert(p, kind) == listed' = listed (+) One(<<p, kind>>)
Log(p) == logged' = logged \cup {p}

Idle == [path |-> <<>>, dir |-> NONE, left |-> {}, found |-> EmptyBag]

\* A rank opens a directory, to read the names in it, in any order.
Open(r, p) ==
    at' = [at EXCEPT ![r] = [path |-> p, dir |-> Stat(p), left |-> Entries(Stat(p)),
                             found |-> EmptyBag]]

\* walk_stat_process before, and walk_readdir_process_dir on EACCES: the bits
\* that are missing are set.
SetDirPerms(n) ==
    IF options.dirPerms /\ Shut(n) THEN Chmod(n) ELSE UNCHANGED opened

\* walk_*_process_dir up to the first entry.
ProcessDir(r, p) ==
    LET n == Stat(p)
    IN  /\ SetDirPerms(n)
        /\ IF n = NONE \/ (Shut(n) /\ ~options.dirPerms)
           THEN Log(p) /\ UNCHANGED at
           ELSE Open(r, p) /\ UNCHANGED logged

-----------------------------------------------------------------------------
(* The callbacks                                                             *)

\* walk_stat_create enqueues the paths; walk_readdir_create, at the first rank,
\* looks at each of them in turn.
Init ==
    /\ tree \in Trees /\ options \in WalkOptions /\ tops \in TopLists
    /\ opened = {} /\ gone = {} /\ listed = EmptyBag /\ logged = {}
    /\ unread = EmptyBag
    /\ at = [r \in Walkers |-> Idle]
    /\ IF options.useStat
       THEN created = Len(tops) /\ pool = BagOfAll(LAMBDA i : tops[i], SetToBag(DOMAIN tops))
       ELSE created = 0 /\ pool = EmptyBag

First == CHOOSE r \in Walkers : \A s \in Walkers : r <= s
Creating == created < Len(tops)
Reading(r) == at[r].path # <<>>

\* walk_readdir_create: a path of which there is no information ends it.
Create ==
    /\ Creating /\ ~Reading(First)
    /\ LET p == tops[created + 1]
           n == Lstat(p)
       IN  IF n = NONE
           THEN Log(p) /\ created' = Len(tops) /\ UNCHANGED <<opened, at, listed>>
           ELSE /\ Insert(p, Kind(n)) /\ created' = created + 1
                /\ IF IsDir(n) THEN ProcessDir(First, p) ELSE UNCHANGED <<opened, at, logged>>
    /\ UNCHANGED <<tree, options, tops, gone, pool, unread>>

\* A rank that is not in a callback takes a path.
Dequeue(r, p) ==
    /\ ~Reading(r) /\ (r = First => ~Creating) /\ BagIn(p, pool)
    /\ pool' = pool (-) One(p)
    /\ UNCHANGED <<tree, options, tops, created, unread>>

\* walk_stat_process
StatProcess(r, p) ==
    /\ options.useStat /\ Dequeue(r, p)
    /\ LET n == IF options.dereference THEN Stat(p) ELSE Lstat(p)
       IN  IF n = NONE
           THEN Log(p) /\ UNCHANGED <<opened, gone, at, listed>>
           ELSE /\ IF Removes(n)
                   THEN Unlink(p) /\ UNCHANGED listed
                   ELSE Insert(p, Kind(n)) /\ UNCHANGED gone
                /\ IF IsDir(n) THEN ProcessDir(r, p) ELSE UNCHANGED <<opened, at, logged>>

\* walk_readdir_process
ReaddirProcess(r, p) ==
    /\ ~options.useStat /\ Dequeue(r, p)
    /\ ProcessDir(r, p)
    /\ UNCHANGED <<gone, listed>>

Enqueue(r, e, p) ==
    at' = [at EXCEPT ![r].left = @ \ {e}, ![r].found = @ (+) One(p)]
Skip(r, e) == at' = [at EXCEPT ![r].left = @ \ {e}]

\* walk_stat_process_dir: the next entry.
StatEntry(r) ==
    /\ options.useStat
    /\ \E e \in at[r].left :
          LET p == BuildPath(at[r].path, e)
          IN  IF p = <<>> THEN Skip(r, e) /\ Log(Append(at[r].path, e))
              ELSE Enqueue(r, e, p) /\ UNCHANGED logged
    /\ UNCHANGED <<tree, options, tops, opened, gone, created, pool, listed, unread>>

\* walk_readdir_process_dir: the next entry.  One that is no longer there may be
\* read, or not.
ReaddirEntry(r) ==
    /\ ~options.useStat
    /\ \E e \in at[r].left :
          LET p == BuildPath(at[r].path, e)
              n == IF tree.typed THEN tree.kids[at[r].dir][e]
                   ELSE IF p = <<>> THEN NONE ELSE Lstat(p)
          IN  \/ /\ e \notin Entries(at[r].dir)
                 /\ Skip(r, e) /\ UNCHANGED <<gone, listed, logged>>
              \/ /\ p = <<>> \/ n = NONE
                 /\ Skip(r, e) /\ Log(Append(at[r].path, e)) /\ UNCHANGED <<gone, listed>>
              \/ /\ p # <<>> /\ n # NONE /\ Removes(n)
                 /\ Skip(r, e) /\ Unlink(p) /\ UNCHANGED <<listed, logged>>
              \/ /\ p # <<>> /\ n # NONE /\ ~Removes(n)
                 /\ Insert(p, Kind(n)) /\ UNCHANGED <<gone, logged>>
                 /\ IF IsDir(n) THEN Enqueue(r, e, p) ELSE Skip(r, e)
    /\ UNCHANGED <<tree, options, tops, opened, created, pool, unread>>

\* readdir gives no entry: the callback closes the directory and returns, and
\* others can have what it has found.
Return(r) ==
    /\ Reading(r)
    /\ pool' = pool (+) at[r].found
    /\ at' = [at EXCEPT ![r] = Idle]
    /\ UNCHANGED <<tree, options, tops, opened, gone, created, listed, logged>>

\* It gives none at the end of the directory.
CloseDir(r) == at[r].left = {} /\ Return(r) /\ UNCHANGED unread

\* It gives none either when reading has failed for good (mfu_io.c:1460), and nobody
\* tells the two apart: the rest of the directory is passed over without a word.
ReaddirFails(r) ==
    /\ at[r].left # {}
    /\ unread' = unread (+) SetToBag({Append(at[r].path, e) : e \in at[r].left})
    /\ Return(r)

Process(r) ==
    \/ \E p \in BagToSet(pool) : StatProcess(r, p) \/ ReaddirProcess(r, p)
    \/ Reading(r) /\ (StatEntry(r) \/ ReaddirEntry(r))
    \/ CloseDir(r) \/ ReaddirFails(r)

Next == Create \/ \E r \in Walkers : Process(r)

Spec == Init /\ [][Next]_vars

Over == ~Creating /\ pool = EmptyBag /\ \A r \in Walkers : ~Reading(r)

-----------------------------------------------------------------------------
(* Properties                                                                *)

\* The paths to be listed: the ones given and, below a directory, every entry
\* it has had.  Links are followed with dereference only, up to the limits.
Depth == (PathLimit + 1) \div 2
RECURSIVE Below(_, _)
Below(p, n) ==
    LET d == IF options.dereference THEN Followed(n) ELSE n
    IN  {p} \cup
        IF d.node = NONE \/ ~IsDir(d.node) \/ Len(p) > Depth THEN {}
        ELSE UNION {Below(Append(p, e), [d EXCEPT !.node = tree.kids[d.node][e]]) :
                    e \in DOMAIN tree.kids[d.node]}

IsPrefixOf(p, q) == Len(p) <= Len(q) /\ SubSeq(q, 1, Len(p)) = p
Times(p) == CopiesIn(<<p, "dir">>, listed) + CopiesIn(<<p, "file">>, listed)
                + CopiesIn(<<p, "link">>, listed)
Given(p) == Cardinality({i \in DOMAIN tops : IsPrefixOf(tops[i], p)})
Unread(p) ==
    BagCardinality([q \in {q \in BagToSet(unread) : IsPrefixOf(q, p)} |-> CopiesIn(q, unread)])
Removed(p) == <<Parent(p), p[Len(p)]>> \in gone \/ Parent(p) \in tree.fixed

\* When the walk is over each path to be listed is listed, as often as it lies
\* below a path given, unless it was removed or an error was printed for it or
\* for a directory above it, or the paths given after one that is not there were
\* never looked at (mfu_flist_walk.c:431).  Two kinds of paths are neither listed
\* nor logged: what cannot be removed (mfu_flist_walk.c:379), and what a readdir
\* that fails leaves unread (mfu_flist_walk.c:356 and 483), once for each time.
Accounted ==
    Over => \A i \in DOMAIN tops :
        LET skipped == ~options.useStat /\ \E j \in 1 .. i - 1 : tops[j] \in logged
        IN  \A p \in Below(tops[i], Reached(tops[i])) :
                \/ Times(p) + Unread(p) = Given(p)
                \/ options.remove /\ Removed(p) /\ Times(p) = 0
                \/ skipped
                \/ \E q \in logged : IsPrefixOf(q, p)
=============================================================================
