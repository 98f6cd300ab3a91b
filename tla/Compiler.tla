------------------------------ MODULE Compiler ------------------------------
(***************************************************************************)
(* From wants to a plan (crates/rwmcp/src/compiler.rs, plan.rs), as        *)
(* operators.                                                              *)
(*                                                                         *)
(* A world model is a record [entities, ops]: entities maps the name of an *)
(* entity to the set of its fields, ops lists the operations (among those  *)
(* that make one entity exist, by name).  An operation is a record         *)
(*   [name, kind, params, defaults, post, produces, requires, reads,       *)
(*    writes, before, external, fork, surfaces]                            *)
(* with a footprint as a set of <<entity, kind, name>>, params as a set of *)
(* names and defaults as a function from some of them; an operation        *)
(* without a postcondition is no candidate for anything and left out.      *)
(* Left out too: names and texts of nodes, forks and gates.                *)
(***************************************************************************)
EXTENDS PlanGraph, Pred

RECURSIVE RefsInVal(_)
RefsInVal(v) ==
  CASE v[1] = "ref"  -> {v[2]}
    [] v[1] = "list" -> UNION {RefsInVal(x) : x \in Range(v[2])}
    [] OTHER         -> {}

RefsIn(p) == UNION {RefsInVal(a[2]) : a \in Range(p.args)}

(* The one argument is an id, and a literal one: the entity is known.      *)
LiteralId(p) == Len(p.args) = 1 /\ p.args[1][1] = "id" /\ p.args[1][2][1] = "num"

(* A value that cannot become an argument.                                 *)
RECURSIVE Unbound(_)
Unbound(v) ==
  \/ v[1] \in {"var", "entity", "each", "all"}
  \/ /\ v[1] = "list"
     /\ \E x \in Range(v[2]) : Unbound(x)

(***************************************************************************)
(* Unification: the set of bindings, empty or of one element.              *)
(***************************************************************************)
RECURSIVE UnifyVal(_, _, _)
UnifyVal(pattern, v, b) ==
  CASE pattern[1] = "var" ->
         IF pattern[2] \notin DOMAIN b THEN {b @@ (pattern[2] :> v)}
         ELSE IF b[pattern[2]] = v THEN {b} ELSE {}
    [] pattern[1] = "list" ->
         IF v[1] # "list" \/ Len(v[2]) # Len(pattern[2]) THEN {}
         ELSE FoldLeftDomain(
                LAMBDA bs, i : UNION {UnifyVal(pattern[2][i], v[2][i], x) : x \in bs},
                {b}, pattern[2])
    [] OTHER -> IF pattern = v THEN {b} ELSE {}

UnifyArg(arg, want, b) ==
  IF Named(want, arg[1]) = {} THEN IF arg[2][1] = "var" THEN {b} ELSE {}
  ELSE UNION {UnifyVal(arg[2], a[2], b) : a \in Named(want, arg[1])}

Unify(post, want) ==
  IF \/ post.entity # want.entity \/ post.field # want.field
     \/ \E a \in Range(want.args) : Named(post, a[1]) = {}
  THEN {}
  ELSE FoldLeft(LAMBDA bs, a : UNION {UnifyArg(a, want, b) : b \in bs},
                UnifyVal(post.value, want.value, <<>>), post.args)

(***************************************************************************)
(* Resource tokens.  A specification is <<entity, kind, name>>.            *)
(***************************************************************************)
RECURSIVE ValIds(_)
ValIds(v) ==
  CASE v[1] = "ref"            -> {v}
    [] v[1] \in {"num", "str"} -> {<<"lit", v[2]>>}
    [] v[1] = "list"           -> UNION {ValIds(x) : x \in Range(v[2])}
    [] OTHER                   -> {AnyId}

Resource(spec, b, node) ==
  {spec[1]} \X (CASE spec[2] = "*"   -> {AnyId}
                  [] spec[2] = "new" -> {<<"ref", node>>}
                  [] spec[2] = "$"   -> IF spec[3] \in DOMAIN b THEN ValIds(b[spec[3]])
                                        ELSE {AnyId})

Resources(specs, b, node) == UNION {Resource(s, b, node) : s \in specs}

(***************************************************************************)
(* A step of the compiler returns the compiler it leaves, what it found    *)
(* and the error that ended it; nothing follows an error.                  *)
(***************************************************************************)
Done(s, out) == [c |-> s, out |-> out, err |-> "none"]
Fail(s, err) == [c |-> s, out |-> 0, err |-> err]
Then(r, Rest(_, _)) == IF r.err # "none" THEN r ELSE Rest(r.c, r.out)

(* Step applied to each element in turn, what it finds collected.          *)
ForEach(Step(_, _), s, elements) ==
  FoldLeft(LAMBDA r, x : Then(r, LAMBDA s1, found :
                           Then(Step(s1, x), LAMBDA s2, y : Done(s2, Append(found, y)))),
           Done(s, <<>>), elements)

(* Mutant: a node is not remembered.                                       *)
RememberNothing(s, pred, node) == s

Remember(s, pred, node) == [s EXCEPT !.memo = @ @@ (pred :> node)]

(***************************************************************************)
(* Content addresses: the operation and the want, every reference replaced *)
(* by the address of the node it refers to.                                *)
(***************************************************************************)
RECURSIVE ExpandVal(_, _)
ExpandVal(s, v) ==
  CASE v[1] = "ref"              -> <<"@", s.nodes[v[2]].canon>>
    [] v[1] \in {"list", "each"} -> <<"list", [i \in DOMAIN v[2] |-> ExpandVal(s, v[2][i])]>>
    [] v[1] = "all"              -> <<"all", ExpandVal(s, v[2])>>
    [] v[1] = "entity"           -> <<"entity", OverPred(v[2], LAMBDA x : ExpandVal(s, x))>>
    [] OTHER                     -> v

(* Mutant: references are left in the address as they are.                 *)
ExpandNothing(s, p) == p

Expand(s, p) == OverPred(p, LAMBDA x : ExpandVal(s, x))

(***************************************************************************)
(* Satisfying a want.                                                      *)
(***************************************************************************)
(* A bare entity reference asks for it to be found, or else to exist.      *)
Bare(s, p) ==
  IF p.field # "" THEN p
  ELSE [p EXCEPT !.field = IF \E o \in Range(s.ops) : /\ o.produces = p.entity
                                                    /\ o.post.field = "resolved"
                           THEN "resolved" ELSE "exists",
                 !.value = True]

Answering(s, p) ==
  SelectSeq(s.ops, LAMBDA o : /\ o.post.entity = p.entity
                            /\ IF IsExistence(p)
                               THEN IsExistence(o.post) /\ o.produces = p.entity
                               ELSE o.post.field = p.field)

(* "X exists" is satisfied by finding X before it is by making X.          *)
Candidates(s, p) ==
  IF IsExistence(p)
  THEN SelectSeq(Answering(s, p), LAMBDA o : o.writes = {})
         \o SelectSeq(Answering(s, p), LAMBDA o : o.writes # {})
  ELSE Answering(s, p)

ByReference(p, post) ==
  /\ ~IsExistence(p) /\ Named(p, "id") = {}
  /\ Len(post.args) = 1 /\ post.args[1][1] = "id"

Surface(op, usable) ==
  LET Open == DOMAIN op.surfaces \cap usable IN
  IF op.kind = "event" THEN "event"
  ELSE IF Open = {} THEN "none"
  ELSE CHOOSE x \in Open : \A y \in Open : op.surfaces[x] <= op.surfaces[y]

RECURSIVE ResolveVal(_, _), ResolveRefs(_, _), Satisfy(_, _), TryEach(_, _, _),
          Requirement(_, _, _), Build(_, _, _, _)

ResolveVal(s, v) ==
  CASE v[1] = "entity" ->
         IF LiteralId(v[2]) THEN Done(s, v[2].args[1][2])
         ELSE Then(Satisfy(s, Bare(s, v[2])), LAMBDA s1, node : Done(s1, <<"ref", node>>))
    [] v[1] = "list" ->
         Then(ForEach(LAMBDA s1, x : ResolveVal(s1, x), s, v[2]),
              LAMBDA s1, xs : Done(s1, <<"list", xs>>))
    [] OTHER -> Done(s, v)

ResolveRefs(s, p) ==
  Then(ForEach(LAMBDA s1, a : Then(ResolveVal(s1, a[2]),
                                   LAMBDA s2, v : Done(s2, <<a[1], v>>)),
               s, p.args),
       LAMBDA s1, args : Done(s1, [p EXCEPT !.args = args]))

Satisfy(s, raw) ==
  Then(ResolveRefs(s, raw), LAMBDA s1, p :
    LET Refs == {a[2][2] : a \in {x \in Named(p, "id") : x[2][1] = "ref"}} IN
    IF p \in DOMAIN s1.memo THEN Done(s1, s1.memo[p])
    ELSE IF IsExistence(p) /\ Refs # {}
         THEN LET node == CHOOSE n \in Refs : TRUE IN Done(Remember(s1, p, node), node)
    ELSE TryEach(s1, p, Candidates(s1, p)))

(* The first candidate whose postcondition unifies; what was satisfied on  *)
(* the way to one that does not stays in the plan.                         *)
TryEach(s, p, ops) ==
  IF ops = <<>> THEN Fail(s, "unsatisfiable")
  ELSE LET post == Head(ops).post IN
    Then(IF ByReference(p, post)
         THEN Then(Satisfy(s, AsExists(p)), LAMBDA s1, node :
                Done(s1, [p EXCEPT !.args = <<<<"id", <<"ref", node>>>>>>]))
         ELSE Done(s, p),
      LAMBDA s1, q :
        LET want == IF IsExistence(p) /\ IsExistence(post)
                    THEN [q EXCEPT !.field = post.field] ELSE q
            Bindings == Unify(post, want)
        IN IF Bindings = {} THEN TryEach(s1, p, Tail(ops))
           ELSE Then(Build(s1, Head(ops), CHOOSE b \in Bindings : TRUE, p),
                     LAMBDA s2, node : Done(Remember(s2, p, node), node)))

(* What a requirement makes the new node depend on.                        *)
Requirement(s, r, b) ==
  LET p == SubstPred(r, b) IN
  IF IsExistence(p) /\ RefsIn(p) # {} THEN Done(s, RefsIn(p))
  ELSE IF IsExistence(p) /\ LiteralId(p) THEN Done(s, {})
  ELSE Then(Satisfy(s, p), LAMBDA s1, node : Done(s1, {node}))

Build(s, op, b, want) ==
  Then(ForEach(LAMBDA s1, r : Requirement(s1, r, b), s, op.requires), LAMBDA s1, required :
    LET node == Len(s1.nodes) + 1
        deps == UNION Range(required) \cup UNION {RefsInVal(b[k]) : k \in DOMAIN b}
        given == [k \in op.params \cap DOMAIN b |-> b[k]]
        writes == Resources(op.writes, b, node)
    IN IF \E k \in DOMAIN given : Unbound(given[k]) THEN Fail(s1, "unbound")
       ELSE IF Surface(op, s1.surfaces) = "none" THEN Fail(s1, "no_surface")
       ELSE Done([s1 EXCEPT
              !.nodes = Append(@, [op |-> op.name, args |-> given @@ op.defaults,
                                   surface |-> Surface(op, s1.surfaces),
                                   reads |-> Resources(op.reads, b, node), writes |-> writes,
                                   keyed |-> op.kind = "http" /\ writes # {},
                                   canon |-> <<op.name, Expand(s1, want)>>,
                                   external |-> op.external, fork |-> op.fork,
                                   before |-> op.before]),
              !.deps = @ \cup {<<d, node>> : d \in deps \ {node}}], node))

(***************************************************************************)
(* compile()                                                               *)
(***************************************************************************)
NewCompiler(ops, surfaces) ==
  [ops |-> ops, surfaces |-> surfaces, nodes |-> <<>>, memo |-> <<>>, deps |-> {}]

(* A want of the intent: everything it stands for.                         *)
SatisfyWant(s, want) ==
  IF Ragged(want) THEN Fail(s, "ragged") ELSE ForEach(Satisfy, s, Unroll(want))

SatisfyAll(s, wants) == ForEach(SatisfyWant, s, wants)

(* Mutant: only footprints make edges.                                     *)
FootprintsOnly(s) == Dedupe(FootprintEdges(s.nodes))

AllEdges(s) == Dedupe(s.deps \cup FootprintEdges(s.nodes))

Rejected(err) == [err |-> err, nodes |-> <<>>, edges |-> {}]

(* The two searches of it are PlanEdges.                                   *)
Emit(s) ==
  IF s.nodes = <<>> THEN Rejected("empty")
  ELSE IF Cyclic(AllEdges(s)) THEN Rejected("cycle")
  ELSE [err |-> "none", nodes |-> s.nodes, edges |-> Reduce(AllEdges(s))]

Compile(wants, ops, surfaces) ==
  LET r == SatisfyAll(NewCompiler(ops, surfaces), wants) IN
  IF r.err # "none" THEN Rejected(r.err) ELSE Emit(r.c)

(* The longest way through a plan, in nodes.                               *)
RECURSIVE DepthAt(_, _)
DepthAt(E, n) ==
  1 + FoldSet(LAMBDA e, d : IF DepthAt(E, e[1]) > d THEN DepthAt(E, e[1]) ELSE d, 0,
              {e \in E : e[2] = n})

Depth(plan) ==
  FoldSet(LAMBDA n, d : IF DepthAt(plan.edges, n) > d THEN DepthAt(plan.edges, n) ELSE d, 0,
          DOMAIN plan.nodes)
=============================================================================
