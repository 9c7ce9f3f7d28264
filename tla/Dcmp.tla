-------------------------------- MODULE Dcmp --------------------------------
(* dcmp.c: compares the lists of two trees item by item and writes, for each *)
(* output asked for, the items of both for which an expression holds.        *)
(* The items are spread over the ranks by a hash of their name below the     *)
(* tree (dcmp_map_fn, Remap), so that an item of the source and the one of   *)
(* the same name in the destination are on the same rank, and ranks meet     *)
(* only where chunks of files are compared and outputs are written.          *)
EXTENDS Naturals, Sequences, FiniteSets

CONSTANTS
    Pairs,          \* pairs of lists: functions from names to items
    CommandLines,   \* records of outputs, the -o options, and base, lite, debug
    Piece           \* units of a file in a chunk

VARIABLES
    sides,          \* <<source list, destination list>>
    line,           \* the command line
    stage,          \* how far main has come
    outputs,        \* options.outputs: sequences of conjunctions
    compared,       \* options.need_compare
    maps,           \* the two string maps: the states of the fields of each item
    left,           \* the items still to be compared
    contents,       \* the lists of files to be compared by their contents
    flags,          \* the chunks compared: "same", "differ", "failed"
    reports,        \* what has been written, for each of the outputs
    status          \* the exit status

cmpVars == <<sides, line, stage, outputs, compared, maps, left, contents, flags, reports, status>>

-----------------------------------------------------------------------------
(* Options.  An output is a sequence of conjunctions, which are sequences of *)
(* expressions <<field, state>>.                                             *)

Attributes == {"UID", "GID", "ATIME", "MTIME", "CTIME", "PERM", "ACL"}
Fields == {"EXIST", "TYPE", "SIZE", "CONTENT"} \cup Attributes
States == {"COMMON", "DIFFER", "ONLY_SRC", "ONLY_DEST"}

\* dcmp_field_depend
WithoutSize(field) == {field} \cup IF field = "EXIST" THEN {} ELSE {"EXIST", "TYPE"}    \* mutant
Depend(field) ==
    {field} \cup CASE field = "EXIST" -> {}
                   [] field = "SIZE" -> {"EXIST", "TYPE"}
                   [] field = "CONTENT" -> {"EXIST", "TYPE", "SIZE"}
                   [] OTHER -> {"EXIST"}

\* dcmp_expression_parse
Legal(x) ==
    /\ x[1] \in Fields /\ x[2] \in States
    /\ x[2] \in {"ONLY_SRC", "ONLY_DEST"} => x[1] = "EXIST"

Expressions(output) == UNION {{c[i] : i \in DOMAIN c} : c \in {output[j] : j \in DOMAIN output}}
DependOf(output) == UNION {Depend(x[1]) : x \in Expressions(output)}

\* A file holds as many units as its size says; outputs and conjunctions come in
\* sequences, expressions in pairs.
IsSequence(s) == s \in Seq({s[n] : n \in DOMAIN s})
IsOutput(o) == IsSequence(o) /\ \A x \in Expressions(o) : x = <<x[1], x[2]>>
DcmpAssumption ==
    /\ Piece \in Nat \ {0}
    /\ \A p \in Pairs : \A i \in 1 .. 2 : \A name \in DOMAIN p[i] :
          /\ p[i][name].size \in Nat
          /\ p[i][name].data = [u \in 1 .. p[i][name].size |-> p[i][name].data[u]]
    /\ \A l \in CommandLines :
          IsSequence(l.outputs) /\ \A n \in DOMAIN l.outputs : IsOutput(l.outputs[n])

\* dcmp_default_outputs, in the order in which the head insertions leave them
Exist(s) == <<"EXIST", s>>
Defaults ==
    <<<<<<Exist("COMMON")>>>>, <<<<Exist("DIFFER")>>>>,
      <<<<Exist("COMMON"), <<"TYPE", "COMMON">>>>>>, <<<<Exist("COMMON"), <<"TYPE", "DIFFER">>>>>>,
      <<<<Exist("COMMON"), <<"CONTENT", "COMMON">>>>>>,
      <<<<Exist("COMMON"), <<"CONTENT", "DIFFER">>>>>>>>

-----------------------------------------------------------------------------
(* The maps                                                                  *)

SourceList == sides[1]
DestinationList == sides[2]
Common == DOMAIN SourceList \cap DOMAIN DestinationList

\* dcmp_strmap_creat
MapOf(list) == [name \in DOMAIN list |-> [f \in Fields |-> "INIT"]]

\* dcmp_strmap_item_update, on both maps
Updated(name, new) ==
    [i \in 1 .. 2 |-> [maps[i] EXCEPT ![name] = [f \in Fields |-> IF f \in DOMAIN new THEN new[f] ELSE @[f]]]]

StateOf(same) == IF same THEN "COMMON" ELSE "DIFFER"

\* dcmp_compare_metadata
Metadata(s, d) ==
    [f \in compared \cap (Attributes \cup {"SIZE"}) |->
        IF f = "SIZE" THEN StateOf(s.type = "dir" \/ s.size = d.size)
        ELSE StateOf(s.attributes[f] = d.attributes[f])]

\* The rest of dcmp_strmap_compare, by what it needs to know: "READ" when the
\* contents of the files are to be read.
Content(s, d) ==
    IF s.type # d.type THEN "DIFFER"
    ELSE IF d.type # "file" THEN "COMMON"
    ELSE IF "SIZE" \in compared /\ Metadata(s, d)["SIZE"] = "DIFFER" THEN "DIFFER"
    ELSE IF line.lite THEN StateOf(s.attributes["MTIME"] = d.attributes["MTIME"])
    ELSE "READ"

TypeAndContent(s, d) ==
    [f \in compared \cap {"TYPE", "CONTENT"} |->
        IF f = "TYPE" THEN StateOf(s.type = d.type)
        ELSE IF Content(s, d) = "READ" THEN "INIT" ELSE Content(s, d)]

\* The chunks of a file; an empty file has one.
ChunksOf(name) == 1 .. IF SourceList[name].size = 0 THEN 1 ELSE (SourceList[name].size + Piece - 1) \div Piece
Chunks == UNION {{<<name, i>> : i \in ChunksOf(name)} : name \in contents}
SameUnits(name, i) ==
    \A u \in DOMAIN SourceList[name].data :
        (u > Piece * (i - 1) /\ u <= Piece * i) =>
            /\ u \in DOMAIN DestinationList[name].data
            /\ SourceList[name].data[u] = DestinationList[name].data[u]

-----------------------------------------------------------------------------
(* Expressions                                                               *)

\* dcmp_expression_match; a field that has not been compared is an assertion
\* that fails.
Matches(x, states) ==
    CASE states["EXIST"] = "ONLY_SRC" -> x \in {Exist("ONLY_SRC"), Exist("DIFFER")}
      [] states["EXIST"] = "INIT" -> x \in {Exist("ONLY_DEST"), Exist("DIFFER")}
      [] OTHER -> x[2] = states[x[1]]
AllCompared(output, map) ==
    \A name \in DOMAIN map : \A x \in Expressions(output) :
        map[name]["EXIST"] = "COMMON" => map[name][x[1]] \in {"COMMON", "DIFFER"}

\* dcmp_disjunction_match: the conjunctions that match, the first counts
Matching(output, states) ==
    {j \in DOMAIN output : \A i \in DOMAIN output[j] : Matches(output[j][i], states)}
FirstOf(js) == CHOOSE j \in js : \A k \in js : j <= k

\* dcmp_output_flist_match: the items of a map that go to the output, and how
\* many of them to each of the conjunctions.
Chosen(output, map) == {name \in DOMAIN map : Matching(output, map[name]) # {}}
Counts(output, map) ==
    [j \in DOMAIN output |->
        Cardinality({name \in Chosen(output, map) : FirstOf(Matching(output, map[name])) = j})]

-----------------------------------------------------------------------------
(* Actions                                                                   *)

CmpInit ==
    /\ sides \in Pairs /\ line \in CommandLines
    /\ stage = "options" /\ outputs = <<>> /\ compared = {}
    /\ maps = <<[n \in {} |-> {}], [n \in {} |-> {}]>>
    /\ left = {} /\ contents = {} /\ flags = [c \in {} |-> "same"]
    /\ reports = <<>> /\ status = 0

\* main: the outputs are parsed, and the defaults put in front of them.
Usage == \E i \in DOMAIN line.outputs : \E x \in Expressions(line.outputs[i]) : ~Legal(x)
Options ==
    /\ stage = "options"
    /\ IF Usage
       THEN stage' = "over" /\ status' = 1 /\ UNCHANGED <<outputs, compared, maps, left>>
       ELSE /\ outputs' = IF line.base \/ line.outputs = <<>> THEN Defaults \o line.outputs
                          ELSE line.outputs
            /\ compared' = UNION {DependOf(outputs'[i]) : i \in DOMAIN outputs'}
            /\ maps' = <<MapOf(SourceList), MapOf(DestinationList)>>
            /\ left' = DOMAIN SourceList
            /\ stage' = "items" /\ UNCHANGED status
    /\ UNCHANGED <<sides, line, contents, flags, reports>>

\* dcmp_strmap_compare: an item of the source.
OnlySrc(name) ==
    /\ name \notin DOMAIN DestinationList
    /\ maps' = [maps EXCEPT ![1][name]["EXIST"] = "ONLY_SRC"]
    /\ UNCHANGED contents
InBoth(name) ==
    /\ name \in DOMAIN DestinationList
    /\ LET s == SourceList[name]
           d == DestinationList[name]
           meta == Metadata(s, d)
           rest == IF "TYPE" \in compared THEN TypeAndContent(s, d) ELSE [f \in {} |-> "INIT"]
       IN  /\ maps' = Updated(name, [f \in {"EXIST"} \cup DOMAIN meta \cup DOMAIN rest |->
                        IF f = "EXIST" THEN "COMMON"
                        ELSE IF f \in DOMAIN meta THEN meta[f] ELSE rest[f]])
           /\ contents' = IF "CONTENT" \in compared /\ Content(s, d) = "READ"
                          THEN contents \cup {name} ELSE contents
CompareItem(name) ==
    /\ stage = "items" /\ name \in left /\ left' = left \ {name}
    /\ OnlySrc(name) \/ InBoth(name)
    /\ UNCHANGED <<sides, line, stage, outputs, compared, flags, reports, status>>

\* dcmp_strmap_compare_data: a rank compares a chunk, wherever it is; a chunk
\* that cannot be read is taken to differ.
CompareChunk(c) ==
    /\ stage = "items" /\ left = {} /\ c \in Chunks \ DOMAIN flags
    /\ \E result \in {"failed", IF SameUnits(c[1], c[2]) THEN "same" ELSE "differ"} :
          flags' = [x \in DOMAIN flags \cup {c} |-> IF x = c THEN result ELSE flags[x]]
    /\ UNCHANGED <<sides, line, stage, outputs, compared, maps, left, contents, reports, status>>

\* dcmp_strmap_check: what the assertions of dcmp_strmap_check_src and
\* dcmp_strmap_check_dst say of the two maps.
Checked(ms) ==
    /\ "EXIST" \in compared
    /\ \A i \in 1 .. 2 : \A name \in DOMAIN ms[i] :
          IF name \in Common
          THEN /\ ms[1][name] = ms[2][name] /\ ms[i][name]["EXIST"] = "COMMON"
               /\ \A f \in Fields \ {"EXIST"} :
                     IF f \in compared THEN ms[i][name][f] \in {"COMMON", "DIFFER"}
                     ELSE ms[i][name][f] = "INIT"
          ELSE /\ ms[i][name]["EXIST"] = IF i = 1 THEN "ONLY_SRC" ELSE "INIT"
               /\ \A f \in Fields \ {"EXIST"} : ms[i][name][f] = "INIT"

\* The OR over the chunks of each file, and whether any rank failed.
AnyOf(name) == {i \in ChunksOf(name) : flags[<<name, i>>] # "same"}
Gathered ==
    /\ stage = "items" /\ left = {} /\ DOMAIN flags = Chunks
    /\ maps' = [i \in 1 .. 2 |-> [name \in DOMAIN maps[i] |->
                   IF name \in contents
                   THEN [maps[i][name] EXCEPT !["CONTENT"] = StateOf(AnyOf(name) = {})]
                   ELSE maps[i][name]]]
    /\ status' = IF \E c \in DOMAIN flags : flags[c] = "failed" THEN 1 ELSE 0
    /\ stage' = IF line.debug /\ ~Checked(maps') THEN "aborted" ELSE "outputs"
    /\ UNCHANGED <<sides, line, outputs, compared, left, contents, flags, reports>>

\* dcmp_output_write
Write ==
    /\ stage = "outputs" /\ Len(reports) < Len(outputs)
    /\ LET o == outputs[Len(reports) + 1]
       IN  IF \A i \in 1 .. 2 : AllCompared(o, maps[i])
           THEN /\ reports' = Append(reports,
                       [items |-> [i \in 1 .. 2 |-> Chosen(o, maps[i])],
                        counts |-> [i \in 1 .. 2 |-> Counts(o, maps[i])]])
                /\ UNCHANGED stage
           ELSE stage' = "aborted" /\ UNCHANGED reports
    /\ UNCHANGED <<sides, line, outputs, compared, maps, left, contents, flags, status>>

Exit ==
    /\ stage = "outputs" /\ Len(reports) = Len(outputs)
    /\ stage' = "over"
    /\ UNCHANGED <<sides, line, outputs, compared, maps, left, contents, flags, reports, status>>

CmpNext ==
    \/ Options \/ Gathered \/ Write \/ Exit
    \/ \E name \in left : CompareItem(name)
    \/ \E c \in Chunks : CompareChunk(c)

CmpSpec == CmpInit /\ [][CmpNext]_cmpVars

-----------------------------------------------------------------------------
(* Properties                                                                *)

\* What an expression says of an item, told from the trees alone: files have the
\* same contents if they have the same data, and could be read, or with --lite
\* the same size and time of modification.
Unread(name) == \E c \in DOMAIN flags : c[1] = name /\ flags[c] = "failed"
SameContents(name, s, d) ==
    /\ s.type = d.type
    /\ s.type = "file" =>
           IF line.lite THEN s.size = d.size /\ s.attributes["MTIME"] = d.attributes["MTIME"]
           ELSE s.data = d.data /\ ~Unread(name)
Agree(f, name) ==
    LET s == SourceList[name]
        d == DestinationList[name]
    IN  CASE f = "TYPE" -> s.type = d.type
          [] f = "SIZE" -> s.type = "dir" \/ s.size = d.size
          [] f = "CONTENT" -> SameContents(name, s, d)
          [] OTHER -> s.attributes[f] = d.attributes[f]
Says(x, name) ==
    CASE x = Exist("COMMON") -> name \in Common
      [] x = Exist("DIFFER") -> name \notin Common
      [] x = Exist("ONLY_SRC") -> name \notin DOMAIN DestinationList
      [] x = Exist("ONLY_DEST") -> name \notin DOMAIN SourceList
      [] OTHER -> name \in Common /\ x[2] = StateOf(Agree(x[1], name))
SaidIn(conjunction, name) == \A k \in DOMAIN conjunction : Says(conjunction[k], name)
SaidBy(output, i) == {name \in DOMAIN sides[i] : \E j \in DOMAIN output : SaidIn(output[j], name)}
\* The items for which a conjunction holds, and none before it.
SaidFirst(output, i, j) ==
    {name \in DOMAIN sides[i] :
        SaidIn(output[j], name) /\ \A k \in DOMAIN output : k < j => ~SaidIn(output[k], name)}

\* Each output lists the items of both trees for which its expressions hold, and
\* each of its conjunctions counts the items that none before it does, whatever
\* else is asked for, in whatever chunks and order they were compared; no assertion
\* fails (dcmp.c:1505), nor one of those that --debug makes (dcmp.c:1169), but for
\* outputs like "," or "@" alone, which ask for nothing (dcmp.c:1172); and the
\* status is 1 after wrong arguments or a file that could not be read, and 0
\* otherwise.
Reported ==
    /\ stage = "aborted" => line.debug /\ \A n \in DOMAIN outputs : Expressions(outputs[n]) = {}
    /\ \A n \in DOMAIN reports : \A i \in 1 .. 2 :
          /\ reports[n].items[i] = SaidBy(outputs[n], i)
          /\ reports[n].counts[i] =
                 [j \in DOMAIN outputs[n] |-> Cardinality(SaidFirst(outputs[n], i, j))]
    /\ stage = "over" => (status = 1) = (Usage \/ \E name \in contents : Unread(name))

\* dcmp has ended, or an assertion has ended it.
CmpOver == stage \in {"over", "aborted"}
=============================================================================
