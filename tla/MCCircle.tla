------------------------------ MODULE MCCircle ------------------------------
(* Three ranks in a chain, the deepest tree that three ranks form.           *)
EXTENDS Circle

MCRanks == 0 .. 2
MCParent == [r \in 1 .. 2 |-> r - 1]
MCItems == 1 .. 4
MCInitialQueues == {[r \in MCRanks |-> IF r = 0 THEN {1} ELSE {}],
                    [r \in MCRanks |-> IF r = 2 THEN {1, 2, 3} ELSE {}]}
=============================================================================
