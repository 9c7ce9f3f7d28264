----------------------------- MODULE MCLibrary ------------------------------
(* The parts of the tools that share no state, checked in one run: a         *)
(* behaviour is about one of them, subject, and the others stand still.      *)
EXTENDS Io, Dcmp, Chmod, LinkDest, Paths, CircleReduce, TLC

\* Strmap
Keys == 1 .. 6
Values == {1, 2}
Merged == [k \in {2, 5} |-> 1]

\* FlistIO
Formats == {"variable", "fixed", "v3", "text"}
WriterJobs == {1, 2}
ReaderJobs == {1, 2, 3}
Item(k, n) == [id |-> k, name |-> n]
FirstLists == {<<Item(1, 1), Item(2, 2), Item(3, 1)>>, <<Item(1, 2)>>, <<>>}
SecondLists == {<<Item(4, 1), Item(5, 2)>>, <<Item(4, 2)>>, <<>>}
Parts ==
    <<{[r \in {0} |-> s] : s \in FirstLists},
      {[r \in 0 .. 1 |-> IF r = 0 THEN s ELSE t] : s \in FirstLists, t \in SecondLists}>>
UserTables == {<<>>, <<Item(1, 1), Item(2, 3)>>}
Leftovers == {<<>>, <<Item(9, 2), Item(8, 1), Item(7, 2), Item(6, 2), Item(10, 1)>>}
Chunk == 5
BatchWords == 24
MaxWrite == 4
WordSize == 8

\* Walk: a with b and l below it, b with f, and h beside; l is a link to a, or
\* leads nowhere.
Kids == [n \in 0 .. 5 |-> CASE n = 0 -> [e \in {"a", "h"} |-> IF e = "a" THEN 1 ELSE 4]
                            [] n = 1 -> [e \in {"b", "l"} |-> IF e = "b" THEN 2 ELSE 5]
                            [] n = 2 -> [e \in {"f"} |-> 3]
                            [] OTHER -> [e \in {} |-> 0]]
Kinds == [n \in 0 .. 5 |-> CASE n \in 0 .. 2 -> "dir" [] n = 5 -> "link" [] OTHER -> "file"]
Trees == [kids : {Kids}, kind : {Kinds}, to : {[n \in {5} |-> x] : x \in {1, -1}},
          shut : {{}, {2}}, fixed : {{}, {1}}, bad : {{}, {4}}, typed : BOOLEAN]
TopLists == {<<<<"h">>, <<"a">>>>, <<<<"a">>, <<"a", "b">>>>}
WalkOptions ==
    [useStat : BOOLEAN, dirPerms : BOOLEAN, remove : BOOLEAN, dereference : {FALSE}]
        \cup [useStat : {TRUE}, dirPerms : BOOLEAN, remove : {FALSE}, dereference : {TRUE}]
Walkers == {0, 1}
PathLimit == 6
LinkLimit == 1

\* Dcmp
File(type, data, mtime, uid) ==
    [type |-> type, size |-> Len(data), data |-> data,
     attributes |-> [f \in {"UID", "GID", "ATIME", "MTIME", "CTIME", "PERM", "ACL"} |->
                        CASE f = "MTIME" -> mtime [] f = "UID" -> uid [] OTHER -> 0]]
Link == File("link", <<1>>, 1, 0)
Empty == File("file", <<>>, 1, 0)
SourceFiles == {File("file", <<1, 2, 3>>, 1, 0), File("dir", <<>>, 1, 0), Link}
DestinationFiles ==
    {File("file", <<1, 2, 3>>, 1, 0), File("file", <<1, 2, 3>>, 2, 0),
     File("file", <<1, 2, 4>>, 1, 0), File("file", <<1, 2, 3, 4>>, 1, 0),
     File("dir", <<>>, 1, 1), Link}
ListOf(file, names) == [n \in names |-> IF n = "a" THEN file ELSE Empty]
MCPairs == {<<ListOf(s, m), ListOf(d, n)>> : s \in SourceFiles, d \in DestinationFiles,
                                         m \in {{"a"}, {"a", "b"}}, n \in {{"a"}, {"a", "b", "c"}}}
Line(o, b, l, d) == [outputs |-> o, base |-> b, lite |-> l, debug |-> d]
One(expression) == <<expression>>
MCCommandLines ==
    {Line(<<>>, FALSE, FALSE, TRUE), Line(<<>>, FALSE, TRUE, FALSE),
     Line(<<<<One(<<"CONTENT", "COMMON">>), <<<<"UID", "DIFFER">>, <<"TYPE", "COMMON">>>>>>>>,
          TRUE, FALSE, TRUE),
     Line(<<<<One(<<"CONTENT", "COMMON">>), One(<<"EXIST", "ONLY_DEST">>)>>>>,
          FALSE, FALSE, FALSE),
     Line(<<<<One(<<"SIZE", "ONLY_SRC">>)>>>>, FALSE, FALSE, FALSE),
     Line(<<<<>>>>, FALSE, FALSE, TRUE),
     Line(<<<<One(<<"EXIST", "DIFFER">>), <<>>>>>>, FALSE, FALSE, TRUE)}

\* Chmod: d/e/f and a link l beside f
MCWithin == [d |-> {}, e |-> {"d"}, f |-> {"d", "e"}, l |-> {"d", "e"}]
MCDepth == [d |-> 1, e |-> 2, f |-> 3, l |-> 3]
MCTypes == [d |-> "dir", e |-> "dir", f |-> "file", l |-> "link"]
On(c, ps) == {<<c, p>> : p \in ps}
MCModes == {[i \in Listed |-> IF i \in {"d", "e"} THEN m ELSE n] :
                m \in {On("u", Perms) \cup {STICKY}, On("u", {"w"}) \cup On("g", {"w"})},
                n \in {On("u", {"r"}) \cup On("o", {"w"}), On("u", Perms)}}
MCOwners == {[i \in Listed |-> 1], [i \in Listed |-> IF i = "f" THEN 2 ELSE 1]}
Part(who, sign, what, from) == [who |-> who, op |-> sign, what |-> what, source |-> from]
PartLists ==
    {<<Part({"u"}, "-", Perms, "")>>, <<Part({}, "+", {"r", "x"}, "")>>,
     <<Part({"u"}, "+", {"r", "x"}, ""), Part({"u"}, "=", {}, "g")>>,
     <<Part({"u", "g"}, "+", {"r", "X"}, ""), Part({"o"}, "=", {"r"}, "g")>>,
     <<Part({"a"}, "-", {"X"}, ""), Part({"o"}, "+", {"w"}, "")>>}
Nobody == [uid |-> -1, gid |-> -1]
Job(octal, parts, new, force, detail, root) ==
    [modes |-> octal \/ parts # <<>>, octal |-> octal, parts |-> parts,
     bits |-> On("u", {"r", "x"}) \cup On("g", {"r"}),
     umask |-> On("g", {"w"}) \cup On("o", {"r"}),
     uid |-> new.uid, gid |-> new.gid, force |-> force, detail |-> detail,
     root |-> root, euid |-> IF root THEN 0 ELSE 1]
MCJobs ==
    {Job(FALSE, p, [uid |-> -1, gid |-> g], f, TRUE, r) :
        p \in PartLists, g \in {-1, 3}, f \in BOOLEAN, r \in BOOLEAN}
        \cup {Job(TRUE, <<>>, Nobody, FALSE, d, r) : d \in BOOLEAN, r \in BOOLEAN}
        \cup {Job(FALSE, <<>>, [uid |-> 4, gid |-> 3], FALSE, TRUE, r) : r \in BOOLEAN}

\* LinkDest: f is in the third tree, x is not; cut wrong, the key of x is that
\* of f, and the key of f nobody's.
Holds(data, size, mtime) == [data |-> data, size |-> size, mtime |-> mtime, perm |-> mtime]
Wanted == Holds("a", 1, 1)
Scene(s, own, x, third, atime, data, delete, key) ==
    [source |-> [f \in s |-> Wanted],
     dst |-> ("f" :> own[1]) @@ ("x" :> x), link |-> ("f" :> <<"third">>) @@ ("x" :> <<>>),
     store |-> [i \in {<<"dst">>, <<"third">>, <<"x">>, <<"new", "f">>, <<"new", "x">>} |->
                   CASE i = <<"dst">> -> own[2] [] i = <<"third">> -> third [] OTHER -> Wanted],
     atime |-> atime, contents |-> data, delete |-> delete, key |-> key]
MCScenes ==
    {Scene(s, own, x, third, a, c, d, k) :
        s \in {{"f", "x"}, {"f"}},
        own \in {<<<<>>, Wanted>>, <<<<"third">>, Wanted>>, <<<<"dst">>, Wanted>>,
                 <<<<"dst">>, Holds("b", 1, 2)>>, <<<<"dst">>, Holds("long", 2, 1)>>},
        x \in {<<>>, <<"x">>, <<"third">>},
        third \in {Holds("a", 1, 2), Holds("b", 1, 1), Wanted, Holds("long", 2, 1)},
        a \in BOOLEAN, c \in BOOLEAN, d \in BOOLEAN,
        k \in {[f |-> "f", x |-> "x"], [f |-> "", x |-> "f"]}}

\* Paths: one source of up to three components, or two of which one's name
\* begins the other's
MCComponents == {"", ".", "..", "a", "ab", "b", "d", "f", "w"}
Strings == UNION {[1 .. n -> {"", ".", "..", "a", "ab"}] : n \in 1 .. 3}
Command(sources, dest, cwd, readable, found, writable, sync) ==
    [sources |-> sources, dest |-> dest, cwd |-> cwd, readable |-> readable,
     found |-> found, writable |-> writable, sync |-> sync]
MCCommandArgs ==
    {Command(<<p>>, d, <<"", "a", "b">>, {1}, f, TRUE, s) :
        p \in Strings, d \in {<<"", "d">>, <<"..", "a", "">>},
        f \in {"dir", "none"}, s \in BOOLEAN}
    \cup {Command(<<<<"a">>, <<"ab">>>>, <<"d">>, c, r, f, w, FALSE) :
            c \in {<<"", "">>, <<"", "w">>}, r \in {{}, {2}}, w \in BOOLEAN,
            f \in {"dir", "file", "none", "link to dir", "broken"}}
    \cup {Command(s, <<"", "d">>, <<"", "">>, {1}, "dir", TRUE, n) :
            s \in {<<<<"a">>, <<"a", "b">>>>, <<<<"a", "b">>, <<"a">>>>, <<<<"ab", "">>, <<"ab">>>>,
                  <<<<"", "">>, <<"a">>>>, <<<<"", "", "">>, <<"", "">>>>},
            n \in BOOLEAN}
MCItemsBelow == {<<>>, <<"f">>, <<"a", "f">>}
MCStartsWith == {<<"a", "ab">>}

\* CircleReduce: 0 above 1 and 2, and 1 above 3
MCParentOf == [p \in 1 .. 3 |-> IF p = 3 THEN 1 ELSE 0]

VARIABLES
    subject,
    nodes, root, size,
    format, lists, users, readers, disk, phase, next, woff, iters, turn,
    roff, carry, scan, got, table,
    tree, options, tops, opened, gone, created, pool, at, listed, logged, unread

treeVars == <<nodes, root, size>>
listVars == <<format, lists, users, readers, disk, phase, next, woff, iters, turn,
              roff, carry, scan, got, table>>
walkVars == <<tree, options, tops, opened, gone, created, pool, at, listed, logged, unread>>
vars == <<subject, treeVars, listVars, callVars, walkVars, cmpVars, modeVars, linkVars,
          nameVars, sumVars>>

Tree == INSTANCE Strmap
List == INSTANCE FlistIO
Walk == INSTANCE Walk

ASSUME LibraryAssumption ==
    /\ Tree!StrmapAssumption /\ List!FlistIOAssumption /\ IoAssumption
    /\ Walk!WalkAssumption /\ DcmpAssumption /\ ModesAssumption
    /\ ScenesAssumption /\ PathsAssumption /\ TreeAssumption

NoTree == Tree!TreeInit
NoList ==
    /\ format = "none" /\ lists = <<>> /\ users = <<>> /\ readers = 0 /\ disk = <<>>
    /\ phase = "none" /\ next = <<>> /\ woff = <<>> /\ iters = <<>> /\ turn = <<>>
    /\ roff = <<>> /\ carry = <<>> /\ scan = <<>> /\ got = <<>> /\ table = <<>>
NoCall ==
    /\ op = "none" /\ asked = 0 /\ effect = FALSE /\ source = <<>> /\ target = <<>>
    /\ tries = 0 /\ moved = 0 /\ errno = "none" /\ result = "none"
NoWalk ==
    /\ tree = <<>> /\ options = <<>> /\ tops = <<>> /\ opened = {} /\ gone = {} /\ created = 0
    /\ pool = EmptyBag /\ at = [r \in Walkers |-> Walk!Idle] /\ listed = EmptyBag /\ logged = {}
    /\ unread = EmptyBag
NoCmp ==
    /\ sides = <<>> /\ line = <<>> /\ stage = "none" /\ outputs = <<>> /\ compared = {}
    /\ maps = <<>> /\ left = {} /\ contents = {} /\ flags = <<>> /\ reports = <<>> /\ status = 0
NoMode ==
    /\ job = <<>> /\ inodes = <<>> /\ known = <<>> /\ level = -1 /\ waiting = {} /\ owned = {}
    /\ stats = <<>>
NoLinks ==
    /\ scene = [link |-> [f \in LinkFiles |-> None]] /\ dirent = <<>> /\ store = <<>> /\ step = "none" /\ copies = {}
    /\ unlinks = EmptyBag /\ alike = {} /\ linkalike = {} /\ hardlinks = EmptyBag
    /\ refresh = {} /\ todo = EmptyBag /\ rc = 0 /\ verdict = "none" /\ failed = {}
NoNames ==
    /\ argv = <<>> /\ params = <<>> /\ valid = FALSE /\ into = FALSE /\ relation = <<>>
    /\ placed = <<>> /\ moment = "none"

Init ==
    \/ subject = "map" /\ Tree!TreeInit
       /\ NoList /\ NoCall /\ NoWalk /\ NoCmp /\ NoMode /\ NoLinks /\ NoNames /\ SumInit
    \/ subject = "list" /\ List!Init
       /\ NoTree /\ NoCall /\ NoWalk /\ NoCmp /\ NoMode /\ NoLinks /\ NoNames /\ SumInit
    \/ subject = "call" /\ CallInit
       /\ NoTree /\ NoList /\ NoWalk /\ NoCmp /\ NoMode /\ NoLinks /\ NoNames /\ SumInit
    \/ subject = "walk" /\ Walk!Init
       /\ NoTree /\ NoList /\ NoCall /\ NoCmp /\ NoMode /\ NoLinks /\ NoNames /\ SumInit
    \/ subject = "compare" /\ CmpInit
       /\ NoTree /\ NoList /\ NoCall /\ NoWalk /\ NoMode /\ NoLinks /\ NoNames /\ SumInit
    \/ subject = "modes" /\ ModeInit
       /\ NoTree /\ NoList /\ NoCall /\ NoWalk /\ NoCmp /\ NoLinks /\ NoNames /\ SumInit
    \/ subject = "links" /\ LinkInit
       /\ NoTree /\ NoList /\ NoCall /\ NoWalk /\ NoCmp /\ NoMode /\ NoNames /\ SumInit
    \/ subject = "names" /\ NameInit
       /\ NoTree /\ NoList /\ NoCall /\ NoWalk /\ NoCmp /\ NoMode /\ NoLinks /\ SumInit
    \/ subject = "sums" /\ SumInit
       /\ NoTree /\ NoList /\ NoCall /\ NoWalk /\ NoCmp /\ NoMode /\ NoLinks /\ NoNames

TreeSteps ==
    /\ subject = "map" /\ Tree!TreeNext
    /\ UNCHANGED <<subject, listVars, callVars, walkVars, cmpVars,
                   modeVars, linkVars, nameVars, sumVars>>
ListSteps ==
    /\ subject = "list" /\ List!Next
    /\ UNCHANGED <<subject, treeVars, callVars, walkVars, cmpVars,
                   modeVars, linkVars, nameVars, sumVars>>
CallSteps ==
    /\ subject = "call" /\ CallNext
    /\ UNCHANGED <<subject, treeVars, listVars, walkVars, cmpVars,
                   modeVars, linkVars, nameVars, sumVars>>
WalkSteps ==
    /\ subject = "walk" /\ Walk!Next
    /\ UNCHANGED <<subject, treeVars, listVars, callVars, cmpVars,
                   modeVars, linkVars, nameVars, sumVars>>
CmpSteps ==
    /\ subject = "compare" /\ CmpNext
    /\ UNCHANGED <<subject, treeVars, listVars, callVars, walkVars,
                   modeVars, linkVars, nameVars, sumVars>>
ModeSteps ==
    /\ subject = "modes" /\ ModeNext
    /\ UNCHANGED <<subject, treeVars, listVars, callVars, walkVars,
                   cmpVars, linkVars, nameVars, sumVars>>
LinkSteps ==
    /\ subject = "links" /\ LinkNext
    /\ UNCHANGED <<subject, treeVars, listVars, callVars, walkVars,
                   cmpVars, modeVars, nameVars, sumVars>>
NameSteps ==
    /\ subject = "names" /\ NameNext
    /\ UNCHANGED <<subject, treeVars, listVars, callVars, walkVars,
                   cmpVars, modeVars, linkVars, sumVars>>
SumSteps ==
    /\ subject = "sums" /\ SumNext
    /\ UNCHANGED <<subject, treeVars, listVars, callVars, walkVars,
                   cmpVars, modeVars, linkVars, nameVars>>

Next == \/ TreeSteps \/ ListSteps \/ CallSteps \/ WalkSteps \/ CmpSteps \/ ModeSteps
        \/ LinkSteps \/ NameSteps \/ SumSteps

Spec == Init /\ [][Next]_vars
\* All but the map, which its callers use for as long as they like, go on.
FairSpec == Spec /\ WF_vars(\/ ListSteps \/ CallSteps \/ WalkSteps \/ CmpSteps \/ ModeSteps
                           \/ LinkSteps \/ NameSteps \/ SumSteps)

\* The nodes of the map form a balanced tree.
Balanced == Tree!Balanced
\* The tree keeps what was set and not unset, in order.
ImplementsMap == Tree!ImplementsMap
\* A list that was written is read as it was.
ReadBack == subject = "list" => List!ReadBack
\* A walk lists, or accounts for, all there is.
Accounted == subject = "walk" => Walk!Accounted
\* Whatever is run comes to an end.
Done ==
    CASE subject = "list" -> List!Over
      [] subject = "call" -> CallOver
      [] subject = "walk" -> Walk!Over
      [] subject = "compare" -> CmpOver
      [] subject = "modes" -> ModeOver
      [] subject = "links" -> LinkOver
      [] subject = "names" -> NamesOver
      [] subject = "sums" -> SumEnded
      [] OTHER -> TRUE
Ends == <>Done
=============================================================================
