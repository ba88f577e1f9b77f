------------------------- MODULE MC_IncrementalRoute ------------------------
(***************************************************************************)
(* A driver, two buffers in a chain and a load, over two grid cells.       *)
(***************************************************************************)
EXTENDS IncrementalRoute

ChainNet == {"n1", "n2", "n3"}
ChainPin == {"d", "b1i", "b1o", "b2i", "b2o", "l"}
ChainInst == {"driver", "b1", "b2", "load"}

ChainInstOf ==
  [p \in ChainPin |-> CASE p = "d" -> "driver" [] p \in {"b1i", "b1o"} -> "b1"
                        [] p \in {"b2i", "b2o"} -> "b2" [] p = "l" -> "load"]

ChainBuffer == {[in |-> "b1i", out |-> "b1o"], [in |-> "b2i", out |-> "b2o"]}

ChainPlace == 1..2

ChainNetOf ==
  [p \in ChainPin |-> IF p \in {"d", "b1i"} THEN "n1"
                      ELSE IF p \in {"b1o", "b2i"} THEN "n2" ELSE "n3"]

\* The driver is in a cell of its own.
ChainPlaces ==
  [p \in ChainPin |-> IF p = "d" THEN 1 ELSE 2]
=============================================================================
