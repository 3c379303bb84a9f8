----------------------------- MODULE MCPlatform -----------------------------
(* A finite instance of the platform: the engine of DurableExecution and the  *)
(* index of SearchIndex, which has jobs of its own.  They share no variable;  *)
(* a behaviour is the life of one of them, which `part` names, and the other  *)
(* stands still in its initial state, where none of its fair actions is       *)
(* enabled.                                                                   *)
EXTENDS MCDurableExecution, SearchIndex, TLC

VARIABLE part

MCInit == Init /\ IndexInit /\ part \in {"engine", "index"}

MCNext ==
  /\ UNCHANGED part
  /\ \/ part = "engine" /\ Next /\ UNCHANGED indexVars
     \/ part = "index" /\ IndexNext /\ UNCHANGED vars

MCSpec == MCInit /\ [][MCNext]_<<vars, indexVars, part>>
MCFairSpec == MCSpec /\ Fairness /\ IndexFairness

(* Bound of the index: a third revision while no query is under way.          *)
MCIndexBound == (\A f \in Findings : revision[f] <= 2) \/ query.phase = "scope"

MCNone == {}
MCSymmetry == Permutations(Generations)
=============================================================================
