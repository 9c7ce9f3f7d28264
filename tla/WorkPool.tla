------------------------------ MODULE WorkPool ------------------------------
(* What a caller of CIRCLE_begin relies on: the work items, those created    *)
(* at the start and those that processing an item adds, are processed once   *)
(* each, no rank returns while one remains, and in the end every rank does.  *)
EXTENDS FiniteSets

CONSTANTS Ranks, Items,
          Initial    \* the sets of items that may exist at the start

VARIABLES created, processed, returned

vars == <<created, processed, returned>>

Init ==
    /\ created \in Initial
    /\ processed = {} /\ returned = {}

Process(i) ==
    /\ i \in created \ processed
    /\ processed' = processed \cup {i}
    /\ \E new \in SUBSET (Items \ created) : created' = created \cup new
    /\ UNCHANGED returned

Return(r) ==
    /\ processed = created
    /\ returned' = returned \cup {r}
    /\ UNCHANGED <<created, processed>>

Next == (\E i \in Items : Process(i)) \/ \E r \in Ranks : Return(r)

Spec == Init /\ [][Next]_vars
\* In the end every rank has returned.
LiveSpec == Spec /\ <>(returned = Ranks)
=============================================================================
