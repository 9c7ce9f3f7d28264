----------------------------- MODULE MCProgress -----------------------------
(* Three ranks: two ranks other than the root can be in different functions *)
(* and hold different requests.  One unit of work per rank tells the totals *)
(* of different rounds apart.                                               *)
EXTENDS Progress

MCN == 3
MCMaxWork == 1
=============================================================================
