----------------------------- MODULE PlanEdges -----------------------------
(***************************************************************************)
(* The end of compile() (crates/rwmcp/src/compiler.rs), step by step: the  *)
(* depth-first search of find_cycle, and then, for each edge in turn, the  *)
(* worklist with which reduce looks for another way from its one end to    *)
(* its other.                                                              *)
(*                                                                         *)
(* A node is known by its position in the plan.  In which order the search *)
(* takes what follows a node, and the worklist what is on it, is left      *)
(* open; it depends on how the edges were found.                           *)
(***************************************************************************)
EXTENDS PlanGraph

CONSTANTS
  Size, \* how many nodes there are
  Found \* the sets of edges compile() may have found

Nodes == 1..Size

ASSUME EdgesAssumption == Size \in Nat /\ \A f \in Found : f \subseteq Nodes \X Nodes

VARIABLES
  edges,   \* what is left of the edges after dedupe
  phase,   \* "search", "cycle", "reduce" or "plan"
  \* find_cycle
  root,    \* the node its loop over all nodes is at
  mark,    \* "new", "open" (1 in the code) or "done" (2)
  left,    \* what follows an open node and is not looked at yet
  stack,   \* the open nodes
  path,    \* the cycle, if there is one
  \* reduce, and reachable within it
  waiting, \* the edges whose turn has not come
  edge,    \* the one whose turn it is
  work,    \* the worklist
  seen,    \* what was ever put on it
  kept

searchVars == <<root, mark, left, stack, path>>
reduceVars == <<waiting, edge, work, seen, kept>>
vars == <<edges, phase, searchVars, reduceVars>>

None == <<>>

Init ==
  /\ edges \in {Dedupe(f) : f \in Found} /\ phase = "search"
  /\ root = 1 /\ mark = [n \in Nodes |-> "new"] /\ left = [n \in Nodes |-> {}]
  /\ stack = <<>> /\ path = <<>>
  /\ waiting = {} /\ edge = None /\ work = {} /\ seen = {} /\ kept = {}

(***************************************************************************)
(* find_cycle: walk(n) of a node that is open has come around; of one that *)
(* is done it returns at once; any other it opens.                         *)
(***************************************************************************)
Top == stack[Len(stack)]

(* Where n is on the stack; the bottom if it is not there.                 *)
Position(n) ==
  IF \E i \in DOMAIN stack : stack[i] = n THEN CHOOSE i \in DOMAIN stack : stack[i] = n ELSE 1

ComeAround(n, rest) ==
  /\ mark[n] = "open"
  /\ phase' = "cycle" /\ path' = Append(SubSeq(stack, Position(n), Len(stack)), n)
  /\ left' = rest /\ UNCHANGED <<mark, stack>>

(* Mutant: of an open one it returns too.                                  *)
SkipMarked(n, rest) ==
  /\ mark[n] # "new"
  /\ left' = rest /\ UNCHANGED <<phase, mark, stack, path>>

Skip(n, rest) ==
  /\ mark[n] = "done"
  /\ left' = rest /\ UNCHANGED <<phase, mark, stack, path>>

Open(n, rest) ==
  /\ mark[n] = "new"
  /\ mark' = [mark EXCEPT ![n] = "open"] /\ stack' = Append(stack, n)
  /\ left' = [rest EXCEPT ![n] = Successors({n}, edges)]
  /\ UNCHANGED <<phase, path>>

Walk(n, rest) == ComeAround(n, rest) \/ Skip(n, rest) \/ Open(n, rest)

WalkRoot ==
  /\ phase = "search" /\ stack = <<>> /\ root <= Size
  /\ Walk(root, left) /\ root' = root + 1
  /\ UNCHANGED <<edges, reduceVars>>

WalkOn ==
  /\ phase = "search" /\ stack # <<>>
  /\ \E n \in left[Top] : Walk(n, [left EXCEPT ![Top] = @ \ {n}])
  /\ UNCHANGED <<edges, root, reduceVars>>

(* Mutant: the node stays open.                                            *)
StayOpen == mark

Marked == [mark EXCEPT ![Top] = "done"]

Leave ==
  /\ phase = "search" /\ stack # <<>> /\ left[Top] = {}
  /\ mark' = Marked /\ stack' = SubSeq(stack, 1, Len(stack) - 1)
  /\ UNCHANGED <<edges, phase, root, left, path, reduceVars>>

NoneFound ==
  /\ phase = "search" /\ stack = <<>> /\ root > Size
  /\ phase' = "reduce" /\ waiting' = edges
  /\ UNCHANGED <<edges, searchVars, edge, work, seen, kept>>

(***************************************************************************)
(* reduce: an edge is kept when the worklist runs out before its end is    *)
(* found along the others.  The edges have their turn by where they end,   *)
(* then by where they start.                                               *)
(***************************************************************************)
Earlier(e, f) == e[2] < f[2] \/ (e[2] = f[2] /\ e[1] <= f[1])

Take ==
  /\ phase = "reduce" /\ edge = None
  /\ \E e \in waiting :
       /\ \A f \in waiting : Earlier(e, f)
       /\ edge' = e /\ waiting' = waiting \ {e}
       /\ work' = {e[1]} /\ seen' = {}
  /\ UNCHANGED <<edges, phase, searchVars, kept>>

(* Mutant: the edge itself counts as another way.                          *)
AllOfThem == edges

Others == edges \ {edge}

(* Mutant: the node stays on the worklist.                                 *)
Peeked(n) == work

Popped(n) == work \ {n}

Look ==
  /\ phase = "reduce" /\ edge # None
  /\ \E n \in work :
       LET fresh == Successors({n}, Others) \ seen IN
       IF edge[2] \in fresh
       THEN edge' = None /\ work' = {} /\ seen' = {}
       ELSE work' = Popped(n) \cup fresh /\ seen' = seen \cup fresh /\ UNCHANGED edge
  /\ UNCHANGED <<edges, phase, searchVars, waiting, kept>>

KeepEdge ==
  /\ phase = "reduce" /\ edge # None /\ work = {}
  /\ kept' = kept \cup {edge} /\ edge' = None /\ seen' = {}
  /\ UNCHANGED <<edges, phase, searchVars, waiting, work>>

NoneWaits ==
  /\ phase = "reduce" /\ edge = None /\ waiting = {}
  /\ phase' = "plan"
  /\ UNCHANGED <<edges, searchVars, reduceVars>>

Next == WalkRoot \/ WalkOn \/ Leave \/ NoneFound \/ Take \/ Look \/ KeepEdge \/ NoneWaits

(* compile() runs on its own until it returns.                             *)
Spec == Init /\ [][Next]_vars /\ WF_vars(Next)

(***************************************************************************)
(* Properties.                                                             *)
(***************************************************************************)
(* Every variable keeps its type, and walk() never calls itself more often *)
(* than there are nodes: find_cycle and reduce of compiler.rs.             *)
TypeOK ==
  /\ edges \subseteq Nodes \X Nodes /\ phase \in {"search", "cycle", "reduce", "plan"}
  /\ root \in 1..Size + 1
  /\ mark \in [Nodes -> {"new", "open", "done"}] /\ left \in [Nodes -> SUBSET Nodes]
  /\ stack \in Seq(Nodes) /\ Len(stack) <= Size /\ path \in Seq(Nodes)
  /\ waiting \subseteq edges /\ edge \in edges \cup {None} /\ kept \subseteq edges
  /\ work \subseteq Nodes /\ seen \subseteq Nodes

(* The cycle that find_cycle of compiler.rs reports leads from a node      *)
(* along edges of the plan, through other nodes, each once, back to it.    *)
CycleIsReal ==
  phase = "cycle" =>
    LET last == Len(path) IN
    /\ last > 1 /\ path[1] = path[last]
    /\ \A i \in 1..last - 1 : <<path[i], path[i + 1]>> \in edges
    /\ \A i, j \in 1..last - 1 : path[i] = path[j] => i = j

(* What reduce of compiler.rs leaves can be run to its end: this is what   *)
(* the scheduler assumes of a plan.                                        *)
PlanCanBeRun ==
  phase = "plan" =>
    /\ kept \subseteq Nodes \X Nodes
    /\ \E rank \in [Nodes -> Nodes] : \A e \in kept : rank[e[1]] < rank[e[2]]

(* find_cycle and reduce, with the stacks they keep, come to what compile()*)
(* promises: a cycle if there is one, and else as few edges as order the   *)
(* same.                                                                   *)
Promise == INSTANCE PlanOrder WITH
  verdict <- IF phase \in {"cycle", "plan"} THEN phase ELSE "none",
  kept <- IF phase = "plan" THEN kept ELSE {}

KeepsTheOrder == Promise!Spec

(* find_cycle and reduce come to an end, whatever the edges are.           *)
Ends == <>(phase \in {"cycle", "plan"})
=============================================================================
