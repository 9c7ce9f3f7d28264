-------------------------------- MODULE Chmod -------------------------------
(* mfu_flist_chmod.c: sets the owners, groups and permissions of the items   *)
(* of a list, level by level from the deepest one.  The items of a level are *)
(* spread evenly over the ranks, so that any two of them may be changed at   *)
(* the same time, and a barrier parts the levels.  mfu_perms_need_dir_rx     *)
(* decides before whether the walk that makes the list sets the bits of      *)
(* directories it could not read otherwise (Walk).                           *)
(*                                                                           *)
(* A mode is the set of its bits: <<class, permission>>, or STICKY; the      *)
(* set-ID bits are left out.  A symbolic mode is the sequence of its parts,  *)
(* parsed: who and what are sets of letters, source is the letter after "=". *)
EXTENDS Integers, Sequences, FiniteSets

CONSTANTS
    Listed,         \* the items of the list
    Within,         \* the directories of the list that each item is in
    DepthOf,        \* how deep it is
    Types,          \* its type
    Modes, Owners,  \* the modes and owners items may have: sets of functions
    Jobs            \* what is asked for, and by whom

NONE == -1
STICKY == <<"all", "t">>
Classes == {"u", "g", "o"}
Perms == {"r", "w", "x"}
DirRx == {<<"u", "r">>, <<"u", "x">>}
Bits == (Classes \X Perms) \cup {STICKY}

\* A directory is above what it has.  A symbolic mode wants a list with details,
\* and what it assigns has a source.  Uninitialized letters are any.
JobParts == [who : SUBSET (Classes \cup {"a"}), op : {"+", "-", "="},
             what : SUBSET (Perms \cup {"X"}), source : Classes \cup {""}]
ModesAssumption ==
    /\ IsFiniteSet(Listed) /\ Listed # {} /\ DepthOf \in [Listed -> Nat \ {0}]
    /\ Within \in [Listed -> SUBSET Listed]
    /\ \A i \in Listed : \A d \in Within[i] : Types[d] = "dir" /\ DepthOf[d] < DepthOf[i]
    /\ Modes \subseteq [Listed -> SUBSET Bits] /\ Owners \subseteq [Listed -> Int]
    /\ Jobs \subseteq [modes : BOOLEAN, octal : BOOLEAN, parts : Seq(JobParts),
                       bits : SUBSET Bits, umask : SUBSET Bits, uid : Int, gid : Int,
                       force : BOOLEAN, detail : BOOLEAN, root : BOOLEAN, euid : Int]
    /\ \A j \in Jobs : /\ j.modes => j.octal \/ j.detail
                       /\ \A k \in DOMAIN j.parts :
                             j.parts[k].op = "=" => j.parts[k].source \in Classes

VARIABLES
    job,            \* the arguments, and the rights of the process
    inodes,         \* owner, group and mode of each item
    known,          \* the same as the walk has found them
    level, waiting, \* the level, and the items of it to be changed
    owned,          \* those of them whose owner and group are done
    stats           \* the counts of chown and chmod: done, failed, skipped

modeVars == <<job, inodes, known, level, waiting, owned, stats>>

Deepest == CHOOSE d \in {DepthOf[i] : i \in Listed} : \A i \in Listed : DepthOf[i] <= d
FromTheTop(i) == Deepest + 1 - DepthOf[i]     \* mutant
LevelOf(i) == DepthOf[i]

-----------------------------------------------------------------------------
(* Modes                                                                     *)

\* parse_ugoa: no letter stands for all, with regard to the umask.
AssumeAll(p) == p.who = {}
Targets(p) == IF p.who \cap {"a"} # {} \/ AssumeAll(p) THEN Classes ELSE p.who

\* mfu_perms_need_dir_rx: whether the user's read and execute bits are on in the
\* end, by the last part that says so.  Of a part with "=" it reads letters that
\* are not initialized: in the model they are what the part has for what.
Turned(letters) ==
    LET said == {k \in DOMAIN job.parts : /\ "u" \in Targets(job.parts[k])
                                          /\ job.parts[k].what \cap letters # {}}
    IN  \E k \in said : job.parts[k].op = "+" /\ \A l \in said : l <= k
NeedDirRx ==
    IF job.octal THEN DirRx \subseteq job.bits
    ELSE Turned({"r"}) /\ Turned({"x", "X"})

\* read_source_bits and set_target_bits
Assigned(p, mode) ==
    {b \in mode : b[1] \notin Targets(p)}
        \cup (Targets(p) \X {q \in Perms : <<p.source, q>> \in mode})

\* set_symbolic_bits, for the user, and then for the group or the others.
Turn(p, mode, bits) == IF p.op = "+" THEN mode \cup bits ELSE mode \ bits
ForUser(p, dir, mode) ==
    IF "u" \notin Targets(p) THEN mode
    ELSE Turn(p, mode, {"u"} \X ((p.what \ {"X"}) \cup IF "X" \in p.what /\ dir THEN {"x"} ELSE {}))
ForClass(c, p, dir, mode) ==
    IF c \notin Targets(p) THEN mode
    ELSE LET big == "X" \in p.what /\ (p.op = "-" \/ dir \/ <<"u", "x">> \in mode)
         IN  Turn(p, mode, {c} \X ((p.what \ {"X"}) \cup IF big THEN {"x"} ELSE {}))
Symbolic(p, dir, mode) ==
    LET new == ForClass("o", p, dir, ForClass("g", p, dir, ForUser(p, dir, mode)))
    IN  IF AssumeAll(p) THEN (new \ job.umask) \cup (mode \cap job.umask) ELSE new

\* set_modebits
AfterPart(p, dir, mode) == IF p.op = "=" THEN Assigned(p, mode) ELSE Symbolic(p, dir, mode)
AfterParts(dir, mode) ==
    LET after[k \in 0 .. Len(job.parts)] ==
            IF k = 0 THEN mode ELSE AfterPart(job.parts[k], dir, after[k - 1])
    IN  after[Len(job.parts)]
SetModebits(dir, mode) ==
    IF job.octal THEN job.bits ELSE AfterParts(dir, mode)

-----------------------------------------------------------------------------
(* The system.  The process has all capabilities, or none.                   *)

IsDir(i) == Types[i] = "dir"
ClassOf(i) == IF inodes[i].uid = job.euid THEN "u" ELSE "o"

Reachable(i) == job.root \/ \A d \in Within[i] : <<ClassOf(d), "x">> \in inodes[d].mode

\* lchown and chmod
MayChown(i) == job.root \/ (inodes[i].uid = job.euid /\ job.uid \in {NONE, job.euid})
MayChmod(i) == job.root \/ inodes[i].uid = job.euid

-----------------------------------------------------------------------------
(* chmod_list                                                                *)

Count(call, what) == stats' = [stats EXCEPT ![call][what] = @ + 1]

NoStats == [c \in {"chown", "chmod"} |-> [w \in {"done", "failed", "skipped"} |-> 0]]

\* The walk has read the modes, and then set the bits of some directories.
Mine(i) == job.root \/ known[i].uid = job.euid
Opened(i) == IsDir(i) /\ job.modes /\ NeedDirRx /\ Mine(i)
ModeInit ==
    /\ job \in Jobs
    /\ \E m \in Modes, o \in Owners :
          known = [i \in Listed |-> [uid |-> o[i], gid |-> 0, mode |-> m[i]]]
    /\ inodes = [i \in Listed |->
           IF Opened(i) THEN [known[i] EXCEPT !.mode = @ \cup DirRx] ELSE known[i]]
    /\ level = Deepest /\ waiting = {i \in Listed : LevelOf(i) = Deepest}
    /\ owned = {} /\ stats = NoStats

\* The part of chmod_list about owners: done without a try where nothing changes
\* or nothing can be changed.
ChownChanges(i) ==
    \/ job.force \/ ~job.detail
    \/ /\ job.uid \notin {NONE, known[i].uid} \/ job.gid \notin {NONE, known[i].gid}
       /\ job.gid # NONE => job.euid = known[i].uid \/ job.root
ChangeOwner(i) ==
    /\ i \in waiting \ owned /\ owned' = owned \cup {i}
    /\ IF job.uid = NONE /\ job.gid = NONE THEN UNCHANGED <<inodes, stats>>
       ELSE IF ~ChownChanges(i) THEN Count("chown", "skipped") /\ UNCHANGED inodes
       ELSE IF ~(Reachable(i) /\ MayChown(i)) THEN Count("chown", "failed") /\ UNCHANGED inodes
       ELSE /\ Count("chown", "done")
            /\ inodes' = [inodes EXCEPT ![i].uid = IF job.uid = NONE THEN @ ELSE job.uid,
                                         ![i].gid = IF job.gid = NONE THEN @ ELSE job.gid]
    /\ UNCHANGED <<job, known, level, waiting>>

\* The part about permissions, and the end of an item.
NewMode(i) == SetModebits(IsDir(i), IF job.detail THEN known[i].mode ELSE {})
ChmodChanges(i) ==
    /\ Types[i] # "link"
    /\ \/ job.force \/ ~job.detail
       \/ NewMode(i) # known[i].mode /\ (job.root \/ job.euid = known[i].uid)
ChangeMode(i) ==
    /\ i \in waiting \cap owned /\ waiting' = waiting \ {i} /\ owned' = owned \ {i}
    /\ IF ~job.modes THEN UNCHANGED <<inodes, stats>>
       ELSE IF ~ChmodChanges(i) THEN Count("chmod", "skipped") /\ UNCHANGED inodes
       ELSE IF ~(Reachable(i) /\ MayChmod(i)) THEN Count("chmod", "failed") /\ UNCHANGED inodes
       ELSE Count("chmod", "done") /\ inodes' = [inodes EXCEPT ![i].mode = NewMode(i)]
    /\ UNCHANGED <<job, known, level>>

\* mfu_flist_chmod: the barrier after a level.
NextLevel ==
    /\ waiting = {} /\ level > 0
    /\ level' = level - 1
    /\ waiting' = {i \in Listed : LevelOf(i) = level - 1}
    /\ UNCHANGED <<job, inodes, known, owned, stats>>

ModeNext == NextLevel \/ \E i \in Listed : ChangeOwner(i) \/ ChangeMode(i)

ModeSpec == ModeInit /\ [][ModeNext]_modeVars

-----------------------------------------------------------------------------
(* Properties                                                                *)

\* Whether a bit is on after a part, told bit by bit: X is x for a directory, and
\* for the group and the others also what the user's bit is.
SaidOn(b, p, dir, before) ==
    LET c == b[1]
        q == b[2]
        user == IF "u" \in Targets(p) /\ "x" \in p.what THEN p.op = "+" ELSE <<"u", "x">> \in before
        big == q = "x" /\ "X" \in p.what /\ (dir \/ (c # "u" /\ (p.op = "-" \/ user)))
    IN  IF c \notin Targets(p) THEN b \in before
        ELSE IF p.op = "=" THEN <<p.source, q>> \in before
        ELSE IF AssumeAll(p) /\ b \in job.umask THEN b \in before
        ELSE IF q \in p.what \/ big THEN p.op = "+"
        ELSE b \in before
ModeWanted(i) ==
    LET on[k \in 0 .. Len(job.parts)] ==
            IF k = 0 THEN known[i].mode
            ELSE {b \in Bits : SaidOn(b, job.parts[k], IsDir(i), on[k - 1])}
    IN  IF job.octal THEN job.bits ELSE on[Len(job.parts)]

\* An item has the mode asked for; or it is a directory that had it when the walk
\* found it, and the walk has set its bits since: this nobody takes back.
ModeRight(i) ==
    \/ inodes[i].mode = ModeWanted(i)
    \/ /\ Opened(i) /\ ModeWanted(i) = known[i].mode
       /\ inodes[i].mode = ModeWanted(i) \cup DirRx

\* In the end every item that is no link has the right mode, unless it belongs to
\* another user or a failure is counted for it; and nothing fails because a
\* directory above was changed too early (mfu_flist_chmod.c:1204).
Changed ==
    level = 0 =>
        LET wrong == {i \in Listed : Mine(i) /\ Types[i] # "link" /\ ~ModeRight(i)}
        IN  /\ job.modes => Cardinality(wrong) <= stats["chmod"]["failed"]
            /\ (\A i \in Listed : Mine(i) /\ (IsDir(i) => <<"u", "x">> \in known[i].mode))
                   => /\ stats["chmod"]["failed"] = 0
                      /\ job.uid = NONE => stats["chown"]["failed"] = 0

\* The levels are done one after another to the last.
ModeOver == level = 0
=============================================================================
