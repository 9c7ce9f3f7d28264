----------------------------- MODULE StringMap ------------------------------
(* What dsync and dcmp rely on when they keep a file list in a strmap: a     *)
(* function from the keys set and not unset to the values they were set to   *)
(* last, whose keys can be visited in order.                                 *)
EXTENDS Naturals, FiniteSets, Functions, TLC

CONSTANTS Keys, Values,
          Merged    \* the map that is merged into this one

VARIABLES
    entries,    \* the function
    size        \* the number of pairs

vars == <<entries, size>>

Empty == [k \in {} |-> 0]

Becomes(f) == entries' = f /\ size' = Cardinality(DOMAIN f)

Init == entries = Empty /\ size = 0

Set(k, v) == Becomes((k :> v) @@ entries)
Unset(k) == Becomes(Restrict(entries, DOMAIN entries \ {k}))
Merge == Becomes(Merged @@ entries)
Delete == Becomes(Empty)

Next ==
    \/ \E k \in Keys, v \in Values : Set(k, v)
    \/ \E k \in Keys : Unset(k)
    \/ Merge
    \/ Delete

Spec == Init /\ [][Next]_vars
=============================================================================
