--------------------------- MODULE MCSearchIndex ---------------------------
(* Finite instances of SearchIndex for TLC.  Generations are only told     *)
(* apart by their state, so they are interchangeable.                      *)
EXTENDS SearchIndex, TLC

MCFindings == {"f1"}
MCSources  == {"s1"}

MCSymmetry == Permutations(Generations)
=============================================================================
