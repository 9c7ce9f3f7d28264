------------------------------- MODULE Strmap -------------------------------
(* strmap.c: a map from strings to strings as a binary search tree with      *)
(* parent links, kept balanced (AVL).  A node is named by its key; nodes[k]  *)
(* is the record strmap_node_new allocates.  Keys are numbers in the order   *)
(* of strcmp.  Only the model checker uses this module.                      *)
EXTENDS Integers, FiniteSets, Sequences

CONSTANTS
    Keys,           \* the keys used
    Values,         \* the values used
    Merged          \* the map given to strmap_merge

NULL == 0

StrmapAssumption ==
    /\ Keys \subseteq Nat \ {NULL}
    /\ DOMAIN Merged \subseteq Keys /\ \A k \in DOMAIN Merged : Merged[k] \in Values

VARIABLES
    nodes,          \* the nodes allocated
    root, size      \* fields of the strmap

vars == <<nodes, root, size>>

Sides == {"left", "right"}
Opposite(s) == IF s = "left" THEN "right" ELSE "left"

TreeInit == nodes = [k \in {} |-> NULL] /\ root = NULL /\ size = 0

-----------------------------------------------------------------------------
(* Helpers on a set of nodes n; x is a node or NULL.                         *)

NodeNew(v, p) ==
    [value |-> v, height |-> 1, parent |-> p, kid |-> [s \in Sides |-> NULL]]

HeightOf(n, x) == IF x = NULL THEN 0 ELSE n[x].height

SetHeight(n, x) ==
    LET l == HeightOf(n, n[x].kid["left"])
        r == HeightOf(n, n[x].kid["right"])
    IN  [n EXCEPT ![x].height = 1 + IF l < r THEN r ELSE l]

BalanceFactor(n, x) == HeightOf(n, n[x].kid["left"]) - HeightOf(n, n[x].kid["right"])

RECURSIVE Outermost(_, _, _)
\* strmap_node_leftmost and strmap_node_rightmost of a subtree.
Outermost(n, x, s) ==
    IF x = NULL \/ n[x].kid[s] = NULL THEN x ELSE Outermost(n, n[x].kid[s], s)

\* Where p, if any, had x as a child it has y.
Relink(n, p, x, y) ==
    IF p = NULL THEN n
    ELSE LET s == IF n[p].kid["left"] = x THEN "left" ELSE "right"
         IN  [n EXCEPT ![p].kid[s] = y]

Parented(n, x, p) == IF x = NULL THEN n ELSE [n EXCEPT ![x].parent = p]

\* Turns the subtree at x towards side s: the other child takes x's place.
Rotate(n, x, s) ==
    LET target == n[x].kid[Opposite(s)]
        parent == n[x].parent
        inner  == n[target].kid[s]
        n1 == Parented([n EXCEPT ![x].kid[Opposite(s)] = inner, ![x].parent = target], inner, x)
        n2 == [SetHeight(n1, x) EXCEPT ![target].kid[s] = x, ![target].parent = parent]
        n3 == Relink(SetHeight(n2, target), parent, x, target)
    IN  IF parent = NULL THEN n3 ELSE SetHeight(n3, parent)

\* One level of strmap_node_rebalance: the side that is too heavy goes up, after
\* the heavy inner grandchild, if it is that one, has come to the outside.
RotateOnce(n, x, s) == Rotate(n, x, Opposite(s))   \* mutant
Turn(n, x, s) ==
    LET target == n[x].kid[s]
        f == BalanceFactor(n, target)
        inner == IF s = "left" THEN f < 0 ELSE f > 0
    IN  Rotate(IF inner THEN Rotate(n, target, s) ELSE n, x, Opposite(s))

Level(n, x) ==
    LET f == BalanceFactor(n, x)
    IN  CASE f < -1 -> Turn(n, x, "right")
          [] f > 1 -> Turn(n, x, "left")
          [] OTHER -> SetHeight(n, x)

RECURSIVE Rebalance(_, _)
Rebalance(n, x) ==
    LET m == Level(n, x)
        top == IF m[x].parent # n[x].parent THEN m[x].parent ELSE x
    IN  IF n[x].parent = NULL THEN [nodes |-> m, root |-> top]
        ELSE Rebalance(m, n[x].parent)

RECURSIVE Search(_, _, _)
\* The node of a key below x, and the node that is or would be its parent.
Search(n, x, k) ==
    IF x = NULL \/ x = k THEN [node |-> x, parent |-> NULL, child |-> "left"]
    ELSE LET s == IF k < x THEN "left" ELSE "right"
             y == n[x].kid[s]
         IN  IF y = NULL \/ y = k THEN [node |-> y, parent |-> x, child |-> s]
             ELSE Search(n, y, k)

\* The node x, with at most one child, gives its place to that child.
ReplacementOf(n, x) == IF n[x].kid["left"] # NULL THEN n[x].kid["left"] ELSE n[x].kid["right"]
ExtractSingle(n, x) ==
    LET child == ReplacementOf(n, x)
    IN  Relink(Parented(n, child, n[x].parent), n[x].parent, x, child)

Free(n, x) == [k \in DOMAIN n \ {x} |-> n[k]]

-----------------------------------------------------------------------------
(* Operations on a tree t, a record of its nodes, its root and its size.     *)

Tree == [nodes |-> nodes, root |-> root, size |-> size]

Grown(t, k, v) ==
    LET f == Search(t.nodes, t.root, k)
        n == [x \in DOMAIN t.nodes \cup {k} |-> IF x = k THEN NodeNew(v, f.parent) ELSE t.nodes[x]]
        b == Rebalance([n EXCEPT ![f.parent].kid[f.child] = k], f.parent)
    IN  IF f.parent = NULL THEN [nodes |-> n, root |-> k, size |-> t.size + 1]
        ELSE [nodes |-> b.nodes, root |-> b.root, size |-> t.size + 1]

WithSetCounted(t, k, v) ==     \* mutant
    IF Search(t.nodes, t.root, k).node = k
    THEN [t EXCEPT !.nodes[k].value = v, !.size = @ + 1]
    ELSE Grown(t, k, v)
WithSet(t, k, v) ==
    IF Search(t.nodes, t.root, k).node = k
    THEN [t EXCEPT !.nodes[k].value = v]
    ELSE Grown(t, k, v)

FromTheTop(n, k, f) ==    \* mutant of TakeOver
    LET left == n[k].kid["left"]
        right == n[k].kid["right"]
        r == Outermost(n, left, "right")
        n1 == IF r = left THEN n
              ELSE [ExtractSingle(n, r) EXCEPT ![r].kid["left"] = left, ![left].parent = r]
        n2 == [n1 EXCEPT ![r].kid["right"] = right, ![right].parent = r, ![r].parent = f.parent]
        n3 == IF f.parent = NULL THEN n2 ELSE [n2 EXCEPT ![f.parent].kid[f.child] = r]
    IN  Rebalance(n3, r)

\* With two children the greatest node of the left subtree takes the place.
TakeOver(n, k, f) ==
    LET left == n[k].kid["left"]
        right == n[k].kid["right"]
        r == Outermost(n, left, "right")
        n1 == IF r = left THEN n
              ELSE [ExtractSingle(n, r) EXCEPT ![r].kid["left"] = left, ![left].parent = r]
        n2 == [n1 EXCEPT ![r].kid["right"] = right, ![right].parent = r, ![r].parent = f.parent]
        n3 == IF f.parent = NULL THEN n2 ELSE [n2 EXCEPT ![f.parent].kid[f.child] = r]
        \* The parent before the replacement moved, unless that is k itself.
        from == IF r = left THEN r ELSE n1[r].parent
    IN  Rebalance(n3, from)

Extracted(n, k, f) ==
    LET child == ReplacementOf(n, k)
        m == ExtractSingle(n, k)
    IN  IF f.parent = NULL THEN [nodes |-> m, root |-> child] ELSE Rebalance(m, f.parent)

WithUnset(t, k) ==
    LET f == Search(t.nodes, t.root, k)
        two == \A s \in Sides : t.nodes[k].kid[s] # NULL
        b == IF two THEN TakeOver(t.nodes, k, f) ELSE Extracted(t.nodes, k, f)
    IN  IF f.node = NULL THEN t
        ELSE [nodes |-> Free(b.nodes, k), root |-> b.root, size |-> t.size - 1]

-----------------------------------------------------------------------------
(* strmap_foreach: strmap_node_first, then strmap_node_next.                 *)

First(n, r) == Outermost(n, r, "left")

RECURSIVE Above(_, _)
\* The first node above x of whose left subtree x is a part.
Above(n, x) ==
    LET p == n[x].parent
    IN  IF p = NULL \/ n[p].kid["left"] = x THEN p ELSE Above(n, p)

Following(n, x) ==
    IF n[x].kid["right"] # NULL THEN Outermost(n, n[x].kid["right"], "left") ELSE Above(n, x)

Foreach ==
    LET from[x \in DOMAIN nodes \cup {NULL}] ==
            IF x = NULL THEN <<>> ELSE <<x>> \o from[Following(nodes, x)]
    IN  from[First(nodes, root)]

\* strmap_get
Get(k) ==
    LET x == Search(nodes, root, k).node IN IF x = NULL THEN NULL ELSE nodes[x].value

-----------------------------------------------------------------------------

Becomes(t) == nodes' = t.nodes /\ root' = t.root /\ size' = t.size

Set(k, v) == Becomes(WithSet(Tree, k, v))

\* strmap_setf: text without '=' sets nothing.
SetFormatted(text) ==
    IF Len(text) = 2 THEN Set(text[1], text[2]) ELSE UNCHANGED vars

Unset(k) == Becomes(WithUnset(Tree, k))

RECURSIVE WithAll(_, _)
WithAll(t, ks) ==
    IF ks = <<>> THEN t ELSE WithAll(WithSet(t, Head(ks), Merged[Head(ks)]), Tail(ks))

\* strmap_merge walks the other map in the order of its keys.
Merge ==
    \E ks \in [1 .. Cardinality(DOMAIN Merged) -> DOMAIN Merged] :
        /\ \A i, j \in DOMAIN ks : i < j => ks[i] < ks[j]
        /\ Becomes(WithAll(Tree, ks))

Delete == nodes' = [k \in {} |-> NULL] /\ root' = NULL /\ size' = 0

TreeNext ==
    \/ \E k \in Keys, v \in Values : Set(k, v)
    \/ \E k \in Keys, v \in Values : SetFormatted(<<k>>) \/ SetFormatted(<<k, v>>)
    \/ \E k \in Keys : Unset(k)
    \/ Merge
    \/ Delete

-----------------------------------------------------------------------------
(* Properties                                                                *)

\* Whatever the order of sets and unsets, the nodes form one tree with matching
\* links both ways, in which the subtrees of each node differ by at most one in
\* height and the heights kept are the real ones (strmap_node_rebalance).
RECURSIVE RealHeight(_)
RealHeight(x) ==
    IF x = NULL THEN 0
    ELSE LET l == RealHeight(nodes[x].kid["left"])
             r == RealHeight(nodes[x].kid["right"])
         IN  1 + IF l < r THEN r ELSE l

Balanced ==
    /\ (root = NULL) <=> (DOMAIN nodes = {})
    /\ root # NULL => nodes[root].parent = NULL
    /\ \A x \in DOMAIN nodes :
          /\ \A s \in Sides : nodes[x].kid[s] # NULL => nodes[nodes[x].kid[s]].parent = x
          /\ nodes[x].height = RealHeight(x)
          /\ BalanceFactor(nodes, x) \in -1 .. 1

\* A map whose entries are what strmap_foreach visits, in ascending order, with
\* what strmap_get finds; an order broken, or a key that is not found, is no map.
Entries ==
    LET visited == [ks \in {Foreach} |->
            IF \A i \in 1 .. Len(ks) - 1 : ks[i] < ks[i + 1]
            THEN [k \in {ks[i] : i \in 1 .. Len(ks)} |-> Get(k)]
            ELSE [k \in {NULL} |-> NULL]]
    IN  visited[Foreach]

Map == INSTANCE StringMap WITH entries <- Entries, size <- size
ImplementsMap == Map!Spec
=============================================================================
