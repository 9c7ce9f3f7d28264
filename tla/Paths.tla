------------------------------- MODULE Paths --------------------------------
(* mfu_path.c and mfu_param_path.c: paths as lists of components, the        *)
(* arguments of a command made absolute and simple, the check of sources and *)
(* destination, and the name that an item of a source gets at the            *)
(* destination.                                                              *)
(*                                                                           *)
(* A string is the sequence of what stands between its slashes, so "/" is    *)
(* <<"", "">>, "a/" is <<"a", "">> and the empty string <<"">>; a path is    *)
(* the list of its components.  The two differ for the root only, whose path *)
(* is <<"">>.                                                                *)
EXTENDS Integers, Sequences

CONSTANTS
    Components,     \* what may stand between two slashes
    CommandArgs,    \* records of sources, dest, cwd, readable, found, writable, sync
    ItemsBelow,     \* where items lie below a source, sequences of names
    StartsWith      \* pairs of names, the first a prefix of the second

\* argv.readable are the indices of the sources that can be read, argv.found is
\* what the destination is, argv.writable whether it, or its parent when there
\* is none, can be written.
VARIABLES
    argv,       \* the arguments, and what there is
    params,     \* the absolute paths of sources and destination, as strings
    valid, into,    \* flag_valid and flag_copy_into_dir
    relation,   \* how the first source and the destination lie to each other
    placed,     \* the item <<i, below>> of a source that is named, and its name
    moment

nameVars == <<argv, params, valid, into, relation, placed, moment>>

NULL == <<>>
Root == <<"">>
Last(s) == s[Len(s)]

\* Components that are no names.  The directory a command runs in is absolute.
Special == {"", ".", ".."}
PathsAssumption ==
    /\ Special \subseteq Components
    /\ \A a \in CommandArgs :
          /\ a.sources \in Seq(Seq(Components) \ {<<>>}) \ {<<>>}
          /\ {a.dest, a.cwd} \subseteq Seq(Components) \ {<<>>} /\ a.cwd[1] = ""
    /\ \A b \in ItemsBelow : b \in Seq(Components) /\ \A k \in DOMAIN b : b[k] \notin Special

-----------------------------------------------------------------------------
(* mfu_path                                                                  *)

\* mfu_path_from_str splits at slashes; mfu_path_strdup joins, and the root is
\* not the empty string.
FromStr(s) == s
Strdup(path) == IF path = Root THEN <<"", "">> ELSE path

\* mfu_path_combine, path2 not empty: before component offset of path1, from 0.
Insert(path1, offset, path2) ==
    SubSeq(path1, 1, offset) \o path2 \o SubSeq(path1, offset + 1, Len(path1))
Prepend(path1, path2) == Insert(path1, 0, path2)
AppendPath(path1, path2) == Insert(path1, Len(path1), path2)

\* mfu_path_slice and mfu_path_sub: up to length components from offset, which is
\* brought into range; a negative length takes the rest.
Slice(path, offset, length) ==
    IF path = <<>> THEN <<>>
    ELSE LET first == offset % Len(path)
             last == IF length < 0 \/ first + length > Len(path) THEN Len(path) ELSE first + length
         IN  SubSeq(path, first + 1, last)
Dirname(path) == IF path = <<>> THEN <<>> ELSE Slice(path, 0, Len(path) - 1)

\* mfu_path_reduce, first: "." goes, and "" but at the head.
KeptAnywhere(path, i) == path[i] \notin {"", "."}   \* mutant
Kept(path, i) == path[i] # "." /\ (path[i] = "" => i = 1)
Simple(path) ==
    LET kept[i \in 0 .. Len(path)] ==
            IF i = 0 THEN <<>>
            ELSE IF Kept(path, i) THEN Append(kept[i - 1], path[i]) ELSE kept[i - 1]
    IN  kept[Len(path)]

\* Then from the front: ".." goes with the name before it, and alone below the root.
Pop(p, component) ==
    IF component # ".." \/ p = <<>> THEN Append(p, component)
    ELSE IF Last(p) = ".." THEN Append(p, component)
    ELSE IF Last(p) = "" THEN p
    ELSE Dirname(p)
Popped(path) ==
    LET popped[k \in 0 .. Len(path)] == IF k = 0 THEN <<>> ELSE Pop(popped[k - 1], path[k])
    IN  popped[Len(path)]
ReducePath(path) == Popped(Simple(path))

IsAbsolute(path) == path # <<>> /\ path[1] = ""
AbsReduce(path) == ReducePath(IF IsAbsolute(path) THEN path ELSE Prepend(path, FromStr(argv.cwd)))
StrdupAbsReduceStr(s) == Strdup(AbsReduce(FromStr(s)))

\* The number of components that two paths have in common at the front.
Shared(p, q) ==
    LET alike == {n \in 0 .. Len(p) : n <= Len(q) /\ \A k \in 1 .. n : p[k] = q[k]}
    IN  CHOOSE n \in alike : \A m \in alike : m <= n

\* mfu_path_cmp, of what it reduces
Cmp(p, q) ==
    LET n == Shared(p, q)
    IN  IF n < Len(p) /\ n < Len(q) THEN "DIFF"
        ELSE IF n < Len(q) THEN "DEST_CHILD"
        ELSE IF n < Len(p) THEN "SRC_CHILD"
        ELSE "EQUAL"

\* mfu_path_relative
Relative(src, dst) ==
    LET n == Shared(src, dst)
    IN  AppendPath([i \in 1 .. Len(src) - n |-> ".."], SubSeq(dst, n + 1, Len(dst)))

-----------------------------------------------------------------------------
(* mfu_param_path                                                            *)

NameInit ==
    /\ argv \in CommandArgs
    /\ params = <<>> /\ valid = FALSE /\ into = FALSE /\ relation = <<>> /\ placed = <<>>
    /\ moment = "set"

\* mfu_param_path_set_all
SetAll ==
    /\ moment = "set" /\ moment' = "check"
    /\ params' = [sources |-> [i \in DOMAIN argv.sources |-> StrdupAbsReduceStr(argv.sources[i])],
                  dest |-> StrdupAbsReduceStr(argv.dest)]
    /\ UNCHANGED <<argv, valid, into, relation, placed>>

IsDirectory == argv.found \in {"dir", "link to dir"}
IsFile == argv.found \in {"file", "link to file"}

\* mfu_param_path_check_copy, at rank 0.
Check ==
    /\ moment = "check" /\ moment' = "relate"
    /\ LET required == Len(argv.sources) > 1
       IN  /\ valid' = (/\ argv.readable # {}
                        /\ IsDirectory \/ IsFile \/ argv.found = "none"
                        /\ argv.writable
                        /\ required => IsDirectory)
           /\ into' = (valid' /\ (required \/ IsDirectory))
    /\ UNCHANGED <<argv, params, relation, placed>>

\* mfu_path_cmp and mfu_path_relative of the two arguments.
Relate ==
    /\ moment = "relate" /\ moment' = IF valid THEN "place" ELSE "end"
    /\ \E p \in {AbsReduce(FromStr(argv.sources[1]))}, q \in {AbsReduce(FromStr(argv.dest))} :
          relation' = [cmp |-> Cmp(p, q), way |-> Relative(p, q)]
    /\ UNCHANGED <<argv, params, valid, into, placed>>

\* strncmp: the string of a source begins the name, character by character.
Begins(path, name) ==
    LET n == Len(path)
    IN  /\ n <= Len(name)
        /\ SubSeq(path, 1, n - 1) = SubSeq(name, 1, n - 1)
        /\ path[n] \in {"", name[n]} \/ <<path[n], name[n]>> \in StartsWith

\* mfu_param_path_copy_dest
CopyDest(name) ==
    LET matches == {i \in DOMAIN params.sources : Begins(params.sources[i], name)}
        i == CHOOSE j \in matches : \A k \in matches : j <= k
        src == FromStr(params.sources[i])
        item == FromStr(name)
        orig == argv.sources[i]
        keepsLast == orig = <<"", "">> \/ (into /\ ~argv.sync /\ Last(orig) # "")
        cut == Len(src) - IF keepsLast THEN 1 ELSE 0
    IN  IF matches = {} THEN NULL
        ELSE Strdup(Prepend(Slice(item, cut, Len(item) - cut), FromStr(params.dest)))

\* The name of an item below a source, as the walk builds it.
NameOf(source, below) ==
    IF source = <<"", "">> /\ below # <<>> THEN Root \o below ELSE source \o below

Place ==
    /\ moment = "place" /\ moment' = "end"
    /\ \E i \in DOMAIN params.sources : \E below \in ItemsBelow :
          placed' = [of |-> i, below |-> below,
                     name |-> CopyDest(NameOf(params.sources[i], below))]
    /\ UNCHANGED <<argv, params, valid, into, relation>>

NameNext == SetAll \/ Check \/ Relate \/ Place

NameSpec == NameInit /\ [][NameNext]_nameVars

NamesOver == moment = "end"

-----------------------------------------------------------------------------
(* Properties                                                                *)

\* Where a string leads: the names from the root, no links in the way.
Enter(location, component) ==
    CASE component \in {"", "."} -> location
      [] component = ".." -> IF location = <<>> THEN <<>>
                            ELSE SubSeq(location, 1, Len(location) - 1)
      [] OTHER -> Append(location, component)
From(location, s) ==
    LET at[k \in 0 .. Len(s)] == IF k = 0 THEN location ELSE Enter(at[k - 1], s[k])
    IN  at[Len(s)]
Location(s) == From(IF IsAbsolute(s) THEN <<>> ELSE From(<<>>, argv.cwd), s)
IsWithin(p, q) == Len(q) <= Len(p) /\ SubSeq(p, 1, Len(q)) = q

\* A path is kept with its meaning and in one form only.
Meant(orig, path) ==
    /\ Location(path) = Location(orig)
    /\ path = Strdup(Root \o Location(orig))

\* Whether an item is told to be of its argument: each argument before whose string
\* begins its name leaves as much of it (mfu_param_path.c:366).
ToldApart(i, name) ==
    \A j \in 1 .. i - 1 :
        LET before == argv.sources[j]
            orig == argv.sources[i]
        IN  Begins(params.sources[j], name) =>
                /\ Len(Location(before)) = Len(Location(orig))
                /\ Last(before) = "" <=> Last(orig) = ""
                /\ Location(before) = <<>> => before = <<"", "">>

\* Arguments lead where they led when they are made absolute and simple, each
\* place has one string, mfu_path_cmp says how the places of source and
\* destination lie to each other, and the relative path leads from one to the
\* other.  An item of a source gets the name that cp gives it: below the
\* destination, in a directory of the source's name if the destination is a
\* directory, unless the source ends with a slash or the trees are synchronized.
\* The empty string is taken for the root.  Left out are items taken for those of
\* another argument, and the root spelled otherwise than "/" (its items are named as
\* if the root's first component were a directory, mfu_param_path.c:403).
Placed ==
    NamesOver =>
        LET p == Location(argv.sources[1])
            q == Location(argv.dest)
        IN  /\ \A i \in DOMAIN argv.sources : Meant(argv.sources[i], params.sources[i])
            /\ Meant(argv.dest, params.dest)
            /\ relation.cmp = IF p = q THEN "EQUAL"
                              ELSE IF IsWithin(p, q) THEN "SRC_CHILD"
                              ELSE IF IsWithin(q, p) THEN "DEST_CHILD"
                              ELSE "DIFF"
            /\ From(p, relation.way) = q
            /\ valid =>
                  LET i == placed.of
                      orig == argv.sources[i]
                      own == IF IsDirectory /\ ~argv.sync /\ Last(orig) # ""
                             THEN <<Last(Location(orig))>> ELSE <<>>
                  IN  /\ Len(argv.sources) > 1 => IsDirectory
                      /\ /\ Location(orig) # <<>> \/ orig = <<"", "">>
                         /\ ToldApart(i, NameOf(params.sources[i], placed.below))
                         => Location(placed.name) = q \o own \o placed.below
=============================================================================
