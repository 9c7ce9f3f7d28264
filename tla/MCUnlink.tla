------------------------------ MODULE MCUnlink ------------------------------
(* A tree of three levels below the top: b holds c and f; c holds g, h, k.   *)
(* The parts put items of one directory on different ranks, leave ranks      *)
(* without items, leave an item out of the list, or list no directory; three *)
(* items for one rank need two buffers.                                      *)
EXTENDS Unlink

MCItems == {"b", "c", "f", "g", "h", "k"}
MCDirs == {"b", "c"}
MCParentOf == [i \in MCItems |-> CASE i = "b" -> "top" [] i \in {"c", "f"} -> "b" [] OTHER -> "c"]
MCDepthOf == [i \in MCItems \cup {"top"} |-> CASE i = "top" -> 0 [] i = "b" -> 1
                                          [] i \in {"c", "f"} -> 2 [] OTHER -> 3]
MCPart(p, q, s) == [r \in 0 .. 2 |-> IF r = 0 THEN p ELSE IF r = 1 THEN q ELSE s]
MCLists == {MCPart(<<"g", "b", "h", "c", "f", "k">>, <<>>, <<>>),
            MCPart(<<"f", "g">>, <<"b", "c">>, <<"h", "k">>),
            MCPart(<<"g", "k">>, <<"b">>, <<"f", "c">>),
            MCPart(<<"g", "k">>, <<"f">>, <<"h">>)}
MCHashes == {[d \in {"b", "c", "top"} |-> IF d = "c" THEN 2 ELSE 0]}
=============================================================================
