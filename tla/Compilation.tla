----------------------------- MODULE Compilation -----------------------------
(***************************************************************************)
(* compile() as a sequence of steps, one for each want, so that the runs   *)
(* look at every prefix, and what a plan must be.  It keeps the nodes, the *)
(* dependencies and the edges of PlanBuild, and is shown to make of them   *)
(* what that promises (BuildSpec).                                         *)
(***************************************************************************)
EXTENDS Intent, World, PlanBuild

CONSTANTS
  Worlds,      \* the world models
  Intents,     \* the sequences of wants to compile
  SurfaceSets, \* the sets of surfaces a run may use
  Answers,     \* what a fork may be answered with: pairs <<old value, new value>>
  LongHand     \* some quantified wants, and how to say the same without

VARIABLES
  world,    \* the world model
  wants,    \* the intent
  surfaces, \* opts.surfaces
  next,     \* the position of the next want
  memo      \* the node a want was satisfied by

vars == <<world, wants, surfaces, next, memo, build>>

(* The Compiler.                                                           *)
c == [ops |-> world.ops, surfaces |-> surfaces, nodes |-> nodes, memo |-> memo, deps |-> deps]

(* What the arguments of a node refer to: RefersTo of PlanBuild.           *)
RefsOf(node) == UNION {RefsInVal(node.args[k]) : k \in DOMAIN node.args}

Init ==
  /\ world \in Worlds /\ wants \in Intents /\ surfaces \in SurfaceSets
  /\ next = 1 /\ memo = <<>> /\ Blank

NextWant ==
  /\ verdict = "compiling" /\ next <= Len(wants)
  /\ LET r == SatisfyWant(c, wants[next]) IN
     IF r.err = "none"
     THEN /\ nodes' = r.c.nodes /\ memo' = r.c.memo /\ deps' = r.c.deps
          /\ next' = next + 1 /\ UNCHANGED verdict
     ELSE verdict' = r.err /\ UNCHANGED <<nodes, memo, deps, next>>
  /\ UNCHANGED <<world, wants, surfaces, order>>

EmitPlan ==
  /\ verdict = "compiling" /\ next > Len(wants)
  /\ verdict' = Emit(c).err /\ order' = Emit(c).edges
  /\ UNCHANGED <<world, wants, surfaces, next, nodes, memo, deps>>

Next == NextWant \/ EmitPlan

Spec == Init /\ [][Next]_vars

(***************************************************************************)
(* Properties.                                                             *)
(***************************************************************************)
(* What compiling these wants instead comes to.                            *)
Compiled(ws) == SatisfyAll(NewCompiler(world.ops, surfaces), ws)

Addresses(s, S) == {s.nodes[i].canon : i \in S}
Keyed(s) == {i \in DOMAIN s.nodes : s.nodes[i].keyed}

(* The order a plan puts its work in, without the numbers of its nodes.    *)
Order(s, E) == {<<s.nodes[e[1]].canon, s.nodes[e[2]].canon>> : e \in E}

OpsDiffer == \A i, j \in DOMAIN nodes : nodes[i].op = nodes[j].op => i = j

(* Every two operations that write the same say which goes first.          *)
DirectlyOrdered ==
  \A p \in SharedWriters(world) : LET a == world.ops[p[1]] b == world.ops[p[2]] IN
    b.name \in a.before \/ a.name \in b.before

(* Content addresses, and with them keys, are those of the same wants in   *)
(* any other order: a rerun after reordering or renumbering redoes nothing.*)
(* (Turning a list around and moving its first want to the end leads from  *)
(* any order of up to three wants to any other; of four, from each to      *)
(* eight.)                                                                 *)
KeysKeepTheirNodes ==
  verdict \in {"none", "cycle"} =>
    \A ws \in {Reverse(wants), Append(Tail(wants), Head(wants))} :
      LET other == Compiled(ws) IN
      /\ other.err = "none"
      /\ Addresses(c, DOMAIN nodes) = Addresses(other.c, DOMAIN other.c.nodes)
      /\ Addresses(c, Keyed(c)) = Addresses(other.c, Keyed(other.c))

(* No two nodes ask for the same thing: the same call of an operation is   *)
(* one node, however many wants lead to it, and has an address of its own. *)
NothingIsAskedTwice ==
  \A i, j \in DOMAIN nodes :
    \/ nodes[i].canon = nodes[j].canon
    \/ nodes[i].keyed /\ nodes[i].op = nodes[j].op /\ nodes[i].args = nodes[j].args
    => i = j

(* Answering a fork by rewriting the ambiguous value in every want leaves  *)
(* the key of every write that does not come after the lookup that forked: *)
(* what was done when the run stopped to ask is not done again.            *)
AnswersKeepKeys ==
  verdict = "none" =>
    \A answer \in Answers : \A n \in DOMAIN nodes :
      nodes[n].fork /\ nodes[n].canon[2].args = answer[1][2].args =>
        LET again == Compiled(WriteAnswer(wants, answer))
            Undisturbed == {i \in Keyed(c) : <<n, i>> \notin Before(order)}
        IN /\ again.err = "none"
           /\ Addresses(c, Undisturbed) \subseteq Addresses(again.c, Keyed(again.c))

(* Quantified wants are short for written-out ones: the same work, under   *)
(* the same keys, in the same order, whatever fans out inside what         *)
(* collects.                                                               *)
EachIsShorthand ==
  wants \in DOMAIN LongHand /\ verdict # "compiling" =>
    LET long == Compile(LongHand[wants], world.ops, surfaces) IN
    /\ verdict = long.err
    /\ verdict = "none" =>
         /\ Addresses(c, DOMAIN nodes) = Addresses(long, DOMAIN long.nodes)
         /\ Addresses(c, Keyed(c)) = Addresses(long, Keyed(long))
         /\ Order(c, order) = Order(long, long.edges)

(* What --order-check says can be relied on.  Where any two operations     *)
(* that write the same have a declared order between them, it finds        *)
(* nothing; and where it finds nothing and no operation occurs twice, the  *)
(* plan is the same both ways.                                             *)
OrderCheckTells ==
  verdict = "none" =>
    LET says == OrderCheck(wants, world, surfaces)
        reversed == Compile(Reverse(wants), world.ops, surfaces)
    IN /\ DirectlyOrdered => says = "ok"
       /\ says = "ok" /\ OpsDiffer => Order(c, order) = Order(reversed, reversed.edges)

(* In a world --validate has no fatal word about, a node stands for every  *)
(* entity of a kind where the model says so, and in one case more: where a *)
(* footprint names a parameter the post does not mention.  validate()      *)
(* takes any parameter for fillable, but footprints are filled from what   *)
(* the want binds in the post.                                             *)
Unfilled(o) == {s \in o.reads \cup o.writes : s[2] = "$" /\ s[3] \notin PredVars(o.post)}


(* compiler.rs says data, not the order of the wants, decides the order of *)
(* nodes, and --validate that no two writers of one thing are left without *)
(* an order: then reversing the wants never turns a plan into a cycle.     *)
WantOrderDoesNotDecide ==
  verdict = "cycle" /\ UnorderedWriters(world) = {} =>
    Compile(Reverse(wants), world.ops, surfaces).err = "cycle"

(* world.rs says that two apps with the same fingerprint compile the same  *)
(* wants the same way.                                                     *)
SameFingerprintSamePlan ==
  verdict # "compiling" =>
    \A w \in {x \in Worlds : Fingerprint(x) = Fingerprint(world)} :
      LET other == Compile(wants, w.ops, surfaces) IN
      /\ other.err = verdict
      /\ verdict = "none" => other.nodes = nodes /\ other.edges = order
=============================================================================
