-------------------------- MODULE MCMinipoolRoutes --------------------------
(* MinipoolRoutes for TLC: no property singles out a minipool or a node.     *)
EXTENDS MinipoolRoutes, TLC

Symmetry == Permutations(Minipools) \cup Permutations(Nodes)
=============================================================================
