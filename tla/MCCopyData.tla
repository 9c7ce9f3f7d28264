----------------------------- MODULE MCCopyData -----------------------------
(* Two ranks share two files and an item that is no file.  The first file is *)
(* cut into two or three chunks, with a partial buffer at the end; the other *)
(* one is empty, smaller than a chunk, or all zeros.                         *)
EXTENDS CopyData

MCSources == {[f |-> <<1, 2, 3, 4, 5>>, g |-> <<>>], [f |-> <<1, 0, 0, 0, 5>>, g |-> <<1>>],
              [f |-> <<1, 0, 3>>, g |-> <<0, 0, 0>>]}
MCNames == {"d", "f", "g"}
MCLists == {[r \in 0 .. 1 |-> IF r = 0 THEN <<"d", "f", "g">> ELSE <<>>],
            [r \in 0 .. 1 |-> IF r = 0 THEN <<"g">> ELSE <<"f", "d">>]}
MCLeftovers == {<<>>, <<-1, -1, -1, -1, -1, -1>>}
Opt(d, s, m) == [direct |-> d, sparse |-> s, fiemap |-> m]
MCOptions == {Opt(FALSE, FALSE, FALSE), Opt(TRUE, FALSE, FALSE), Opt(FALSE, TRUE, FALSE),
              Opt(FALSE, TRUE, TRUE), Opt(TRUE, TRUE, TRUE)}
=============================================================================
