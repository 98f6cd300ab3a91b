----------------------------- MODULE PlanOrder -----------------------------
(***************************************************************************)
(* What compile() (crates/rwmcp/src/compiler.rs) promises of the edges it  *)
(* has found: one that leads in a circle is reported, and otherwise a plan *)
(* keeps as few of them as order the same.                                 *)
(***************************************************************************)
EXTENDS PlanGraph

CONSTANT Found \* the sets of edges compile() may have found

VARIABLES
  edges,   \* those it has found, each once
  verdict, \* "none" yet, "cycle" or "plan"
  kept     \* the plan's

order == <<edges, verdict, kept>>

Start == edges \in {Dedupe(f) : f \in Found} /\ verdict = "none" /\ kept = {}

TurnDown ==
  /\ verdict = "none" /\ Cyclic(edges)
  /\ verdict' = "cycle" /\ UNCHANGED <<edges, kept>>

(* The same nodes are before the same nodes.                               *)
SameOrder(E, F) ==
  LET V == {e[1] : e \in E} \cup {e[2] : e \in E} IN
  \A x, y \in V : Reachable(x, y, E) <=> Reachable(x, y, F)

Superfluous(e, E) == Reachable(e[1], e[2], E \ {e})

Keep ==
  /\ verdict = "none" /\ ~Cyclic(edges)
  /\ verdict' = "plan"
  /\ kept' \in SUBSET edges
  /\ SameOrder(edges, kept') /\ \A e \in kept' : ~Superfluous(e, kept')
  /\ UNCHANGED edges

Decide == TurnDown \/ Keep

Spec == Start /\ [][Decide]_order
=============================================================================
