--------------------------- MODULE MC_SearchIndex ---------------------------
(***************************************************************************)
(* Instances, announced before and after, and fills, whose destruction is  *)
(* not announced.                                                          *)
(***************************************************************************)
EXTENDS SearchIndex

MCCallback == [insts |-> {"before", "after"}, fills |-> {"after", "silent"}]
MCMaxChanges == [insts |-> 2, fills |-> 1]
=============================================================================
