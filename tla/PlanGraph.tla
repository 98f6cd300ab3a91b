----------------------------- MODULE PlanGraph -----------------------------
(***************************************************************************)
(* The order between the nodes of a plan: footprints, the edges they give, *)
(* and the transitive reduction (crates/rwmcp/src/compiler.rs).            *)
(*                                                                         *)
(* A node is known here by its position in the plan; its footprint is two  *)
(* sets of resource tokens <<entity, id>>, where the id AnyId stands for   *)
(* "every one of them".                                                    *)
(***************************************************************************)
EXTENDS Naturals, Sequences

AnyId == <<"*">>

Conflicts(a, b) == a[1] = b[1] /\ (AnyId \in {a[2], b[2]} \/ a[2] = b[2])

AnyConflict(xs, ys) == \E x \in xs, y \in ys : Conflicts(x, y)

(* Mutant: the order of the wants decides.                                 *)
WantOrder(a, b) == FALSE

(* Which of two nodes that touch the same data goes first, if either does: *)
(* a before b in the plan.  Where the world model is silent, a does.       *)
SecondFirst(a, b) ==
  IF AnyConflict(a.writes, b.writes) THEN a.op \in b.before
  ELSE AnyConflict(b.writes, a.reads) /\ ~AnyConflict(a.writes, b.reads)

Touching(a, b) ==
  AnyConflict(a.writes, b.writes \cup b.reads) \/ AnyConflict(b.writes, a.reads)

FootprintEdges(nodes) ==
  LET Pairs == {p \in (DOMAIN nodes) \X (DOMAIN nodes) :
                  p[1] < p[2] /\ Touching(nodes[p[1]], nodes[p[2]])} IN
  {IF SecondFirst(nodes[p[1]], nodes[p[2]]) THEN <<p[2], p[1]>> ELSE p : p \in Pairs}

Dedupe(edges) == {e \in edges : e[1] # e[2]}

(* What a walk along the edges finds, starting with what follows a node:   *)
(* the least set that has those nodes and, with a node, all that follow it.*)
Successors(S, edges) == {e[2] : e \in {f \in edges : f[1] \in S}}

ReachedFrom(from, edges) ==
  LET Ends == Successors({e[1] : e \in edges}, edges) IN
  {x \in Ends : \A S \in SUBSET Ends : Successors(S \cup {from}, edges) \subseteq S => x \in S}

Reachable(from, to, edges) == to \in ReachedFrom(from, edges)

(* What find_cycle looks for.                                              *)
Cyclic(edges) == \E e \in edges : Reachable(e[1], e[1], edges)

(* An edge is kept when no other way leads along all the other edges.      *)
Reduce(edges) ==
  {e \in edges : ~Reachable(e[1], e[2], edges \ {e})}
=============================================================================
