------------------------------- MODULE Intent -------------------------------
(***************************************************************************)
(* What is wrong with an intent before anything is spent on it             *)
(* (crates/rwmcp/src/intent.rs, lint), and how an answer to a fork is      *)
(* written into it (crates/cli/src/main.rs).  An intent is its wants; its  *)
(* goal and the forks it declares are texts and left out, and so are wants *)
(* that do not parse.                                                      *)
(***************************************************************************)
EXTENDS Compiler

(* An element of an each that nothing has turned into an identified entity.*)
Vague(v) ==
  v[1] = "entity" /\ (v[2].args = <<>> \/ Named(v[2], "name_prefix") # {})

RECURSIVE Unexpanded(_)
Unexpanded(v) ==
  CASE v[1] = "each"   -> \E x \in Range(v[2]) : Vague(x)
    [] v[1] = "list"   -> \E x \in Range(v[2]) : Unexpanded(x)
    [] v[1] = "all"    -> Unexpanded(v[2])
    [] v[1] = "entity" -> \E a \in Range(v[2].args) : Unexpanded(a[2])
    [] OTHER           -> FALSE

(* The predicate and every one inside its arguments.                       *)
RECURSIVE WalkVals(_)
WalkVals(v) ==
  CASE v[1] = "entity" -> {v[2]} \cup UNION {WalkVals(a[2]) : a \in Range(v[2].args)}
    [] OTHER           -> UNION {WalkVals(x) : x \in Inside(v)}

(* Entities that are found and never made.                                 *)
Findable(w) == {o.produces : o \in {x \in Range(w.ops) : x.post.field = "resolved"}}

LintWant(w, want) ==
  LET Seen == WalkVals(<<"entity", want>>)
      Asking == {p \in Seen : p.entity \in DOMAIN w.entities /\ p.field # "" /\ ~IsExistence(p)}
  IN {x \in {"variable_in_want", "unknown_entity", "unknown_field", "unexpanded_selector",
             "matches_nothing", "unparseable", "wants_an_entity_that_already_exists"} :
        CASE x = "variable_in_want"    -> PredVars(want) # {}
          [] x = "unknown_entity"      -> \E p \in Seen : p.entity \notin DOMAIN w.entities
          [] x = "unknown_field"       -> \E p \in Asking : p.field \notin w.entities[p.entity]
          [] x = "unexpanded_selector" -> \E a \in Range(want.args) : Unexpanded(a[2])
          [] x = "matches_nothing"     -> ~Ragged(want) /\ Unroll(want) = <<>>
          [] x = "unparseable"         -> Ragged(want)
          [] x = "wants_an_entity_that_already_exists" ->
               IsExistence(want) /\ want.entity \in Findable(w)}

(* The codes of what lint finds; it compiles only what is otherwise right. *)
Lint(wants, w, surfaces) ==
  IF wants = <<>> THEN {"empty"}
  ELSE LET Wrong == UNION {LintWant(w, want) : want \in Range(wants)} IN
       IF Wrong # {} THEN Wrong
       ELSE IF Compile(wants, w.ops, surfaces).err # "none" THEN {"unsatisfiable"} ELSE {}

(***************************************************************************)
(* --order-check: the wants compiled both ways round, and compared by the  *)
(* number of steps, the depth, and which operation follows which.          *)
(***************************************************************************)
Signature(plan) == {<<plan.nodes[e[1]].op, plan.nodes[e[2]].op>> : e \in plan.edges}

(* Mutant: sizes are compared, and nothing else.                           *)
DiffersInSize(a, b) == Len(a.nodes) # Len(b.nodes) \/ Depth(a) # Depth(b)

PlanDiffers(a, b) ==
  \/ Len(a.nodes) # Len(b.nodes)
  \/ Depth(a) # Depth(b)
  \/ Signature(a) # Signature(b)

OrderCheck(wants, w, surfaces) ==
  LET forward == Compile(wants, w.ops, surfaces)
      reversed == Compile(Reverse(wants), w.ops, surfaces)
  IN IF forward.err # "none" THEN "compile_failed"
     ELSE IF reversed.err # "none" THEN "compile_failed_reversed"
     ELSE IF PlanDiffers(forward, reversed) THEN "order_dependent"
     ELSE "ok"

(***************************************************************************)
(* --answer: the ambiguous value is rewritten wherever it occurs in the    *)
(* wants.                                                                  *)
(***************************************************************************)
RECURSIVE Rewrite(_, _)
Rewrite(v, answer) ==
  IF v = answer[1] THEN answer[2]
  ELSE CASE v[1] \in {"list", "each"} ->
              <<v[1], [i \in DOMAIN v[2] |-> Rewrite(v[2][i], answer)]>>
         [] v[1] = "all"    -> <<"all", Rewrite(v[2], answer)>>
         [] v[1] = "entity" -> <<"entity", OverPred(v[2], LAMBDA x : Rewrite(x, answer))>>
         [] OTHER           -> v

WriteAnswer(wants, answer) ==
  [i \in DOMAIN wants |-> OverPred(wants[i], LAMBDA x : Rewrite(x, answer))]
=============================================================================
