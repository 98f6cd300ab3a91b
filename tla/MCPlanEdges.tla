---------------------------- MODULE MCPlanEdges ----------------------------
(* Every set of edges between three nodes, and every set of up to five     *)
(* edges between four.                                                     *)
EXTENDS PlanEdges, FiniteSetsExt

Upto(n, S) == UNION {kSubset(k, S) : k \in 0..n}
SomeEdges == SUBSET ((1..3) \X (1..3)) \cup Upto(5, {e \in Nodes \X Nodes : e[1] # e[2]})
=============================================================================
