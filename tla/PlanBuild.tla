----------------------------- MODULE PlanBuild -----------------------------
(***************************************************************************)
(* What compile() (crates/rwmcp/src/compiler.rs) promises of the plan it   *)
(* builds, whatever the wants and the world model are: how its nodes come  *)
(* about, and that dependencies and footprints, and nothing else, order    *)
(* them.                                                                   *)
(***************************************************************************)
EXTENDS PlanGraph

CONSTANT RefersTo(_) \* the nodes the arguments of a node refer to

VARIABLES
  nodes,   \* known by their positions
  deps,    \* pairs: what a node needs, and the node
  order,   \* the edges of the plan
  verdict  \* "compiling", "none" for a plan, or the CompileError

build == <<nodes, deps, order, verdict>>

Blank == nodes = <<>> /\ deps = {} /\ order = {} /\ verdict = "compiling"

(* A want adds nodes, each after those it needs, and what its arguments    *)
(* refer to is among these.  The nodes there are stay as they are.         *)
Grow ==
  LET Added == DOMAIN nodes' \ DOMAIN nodes IN
  /\ verdict = "compiling"
  /\ Len(nodes') \in Nat /\ DOMAIN nodes' = 1..Len(nodes')
  /\ \A n \in DOMAIN nodes : n \in DOMAIN nodes' /\ nodes'[n] = nodes[n]
  /\ deps \subseteq deps'
  /\ \A e \in deps' \ deps : e \in (DOMAIN nodes') \X Added /\ e[1] < e[2]
  /\ \A n \in Added : \A m \in RefersTo(nodes'[n]) : <<m, n>> \in deps'
  /\ UNCHANGED <<order, verdict>>

(* The first want that cannot be satisfied ends it.                        *)
GiveUp ==
  /\ verdict = "compiling"
  /\ verdict' \in {"ragged", "unsatisfiable", "unbound", "no_surface"}
  /\ UNCHANGED <<nodes, deps, order>>

(* What the plan's edges have to order.                                    *)
Demanded == Dedupe(deps \cup FootprintEdges(nodes))

(* The pairs of nodes of which the one is before the other along E.        *)
Before(E) == UNION {{n} \X ReachedFrom(n, E) : n \in DOMAIN nodes}

Reject ==
  /\ verdict = "compiling"
  /\ \/ verdict' = "empty" /\ nodes = <<>>
     \/ verdict' = "cycle" /\ Cyclic(Demanded)
  /\ UNCHANGED <<nodes, deps, order>>

Return ==
  /\ verdict = "compiling" /\ nodes # <<>> /\ ~Cyclic(Demanded)
  /\ verdict' = "none"
  /\ order' \in SUBSET Demanded /\ Before(order') = Before(Demanded)
  /\ UNCHANGED <<nodes, deps>>

Proceed == Grow \/ GiveUp \/ Reject \/ Return

(* However wants are satisfied, compile() builds like this: every node     *)
(* after what it needs and after all that its arguments refer to, and out  *)
(* of it a plan whose edges order what dependencies and footprints demand, *)
(* a cycle if they have one, or an error that leaves no plan.              *)
BuildSpec == Blank /\ [][Proceed]_build

(***************************************************************************)
(* Properties.                                                             *)
(***************************************************************************)
(* In a plan two nodes of which one writes what the other touches never    *)
(* run side by side.  A writer precedes a reader that writes nothing of    *)
(* the writer's, and of two writers the one declared to come before does,  *)
(* unless each is: footprint_edges and reduce of compiler.rs.              *)
DataDecidesTheOrder ==
  verdict = "none" =>
    LET B == Before(order) IN
    \A i, j \in DOMAIN nodes : i # j => LET a == nodes[i] b == nodes[j] IN
      /\ AnyConflict(a.writes, b.reads \cup b.writes) => <<i, j>> \in B \/ <<j, i>> \in B
      /\ AnyConflict(a.writes, b.reads) /\ ~AnyConflict(b.writes, a.reads \cup a.writes)
           => <<i, j>> \in B
      /\ AnyConflict(a.writes, b.writes) /\ b.op \in a.before /\ a.op \notin b.before
           => <<i, j>> \in B

(* Whatever a node's arguments refer to is done before the node runs: a    *)
(* lane never meets a reference it cannot resolve (build of compiler.rs,   *)
(* resolve_args of scheduler.rs).                                          *)
ReferencesResolve ==
  verdict = "none" =>
    \A j \in DOMAIN nodes : \A i \in RefersTo(nodes[j]) : <<i, j>> \in Before(order)

(* Wants alone never contradict each other: compile() calls wants a cycle  *)
(* only where the data puts a node before one it was made after.           *)
CyclesComeOfData ==
  verdict = "cycle" =>
    \E i, j \in DOMAIN nodes :
      i < j /\ Touching(nodes[i], nodes[j]) /\ SecondFirst(nodes[i], nodes[j])
=============================================================================
