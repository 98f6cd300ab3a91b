-------------------------------- MODULE World --------------------------------
(***************************************************************************)
(* The world model read for itself (crates/rwmcp/src/world.rs): its        *)
(* fingerprint, the order it declares between operations, and what         *)
(* --validate finds wrong with it.  A world is as in Compiler.  A finding  *)
(* is <<code, operation>>, or <<code, two operations>>; its message is     *)
(* left out, and so is a footprint entry that is no entity:selector.       *)
(***************************************************************************)
EXTENDS PlanGraph, Pred

(***************************************************************************)
(* What the fingerprint is made of; the hash is taken to be injective.     *)
(***************************************************************************)
OpPrint(o) ==
  [name |-> o.name, kind |-> o.kind, post |-> o.post, requires |-> Range(o.requires),
   produces |-> o.produces, reads |-> o.reads, writes |-> o.writes, external |-> o.external,
   before |-> o.before, surfaces |-> o.surfaces]

Fingerprint(w) == <<w.entities, {OpPrint(o) : o \in Range(w.ops)}>>

(***************************************************************************)
(* The declared order: directly, or through a chain of declarations.       *)
(***************************************************************************)
DeclaredBefore(w) ==
  UNION {{<<o.name, x>> : x \in o.before} : o \in Range(w.ops)}

Ordered(w, from, to) == Reachable(from, to, DeclaredBefore(w))

Overwrites(o) == {s \in o.writes : s[2] # "new"}

SharedWriters(w) ==
  {p \in (DOMAIN w.ops) \X (DOMAIN w.ops) :
     p[1] < p[2] /\ Overwrites(w.ops[p[1]]) \cap w.ops[p[2]].writes # {}}

UnorderedWriters(w) ==
  {p \in SharedWriters(w) : /\ ~Ordered(w, w.ops[p[1]].name, w.ops[p[2]].name)
                            /\ ~Ordered(w, w.ops[p[2]].name, w.ops[p[1]].name)}

(***************************************************************************)
(* Fatal findings.                                                         *)
(***************************************************************************)
(* What a variable of an operation can be filled from.                     *)
Fillable(o) == o.params \cup DOMAIN o.defaults

Predicates(o) == {o.post} \cup Range(o.requires)

Known(w) == DOMAIN w.entities

(* What an operation names that is not there.                              *)
NameFindings(w, o) ==
  LET Entities == {p.entity : p \in Predicates(o)}
                    \cup {s[1] : s \in o.reads \cup o.writes} \cup ({o.produces} \ {"none"})
      Asked == {p \in Predicates(o) : ~IsExistence(p) /\ p.field # "" /\ p.entity \in Known(w)}
  IN {x \in {"unknown_entity", "unknown_field", "before_unknown_op", "no_surfaces"} :
        CASE x = "unknown_entity"    -> ~(Entities \subseteq Known(w))
          [] x = "unknown_field"     -> \E p \in Asked : p.field \notin w.entities[p.entity]
          [] x = "before_unknown_op" -> ~(o.before \subseteq {a.name : a \in Range(w.ops)})
          [] x = "no_surfaces"       -> o.kind # "event" /\ DOMAIN o.surfaces = {}}

(* And the variables of its predicates and footprints that nothing fills.  *)
OpFindings(w, o) ==
  LET Asked == UNION {PredVars(p) : p \in Predicates(o)}
      Bound == {s[3] : s \in {x \in o.reads \cup o.writes : x[2] = "$"}}
  IN NameFindings(w, o)
       \cup {x \in {"unfillable_variable", "unbound_footprint_param"} :
               ~((IF x = "unfillable_variable" THEN Asked ELSE Bound) \subseteq Fillable(o))}

FatalFindings(w) ==
  {<<"no_entities", "(document)">> : e \in {x \in {0} : Known(w) = {}}}
    \cup {<<"nothing_plannable", "(document)">> : e \in {x \in {0} : w.ops = <<>>}}
    \cup UNION {OpFindings(w, o) \X {o.name} : o \in Range(w.ops)}

(***************************************************************************)
(* The operations that find an entity by one of its fields; the first of   *)
(* them is the resolver (crates/rwmcp/src/planner.rs).                     *)
(***************************************************************************)
Resolvers(w, entity) ==
  SelectSeq(w.ops, LAMBDA o : /\ o.produces = entity /\ o.post.entity = entity
                              /\ o.post.field = "resolved")

LookupArgs(o) == SelectSeq(o.post.args, LAMBDA a : a[2][1] = "var")

Resolvable(w, entity) ==
  Resolvers(w, entity) # <<>> /\ LookupArgs(Head(Resolvers(w, entity))) # <<>>

(***************************************************************************)
(* Selectors: each(E(field=x)) becomes the rows the resolver returns for   *)
(* that filter; one it cannot take is left alone.  Rows has for an entity  *)
(* its rows, functions from what they can be asked by.                     *)
(***************************************************************************)
Selects(w, v) ==
  /\ v[1] = "each" /\ Len(v[2]) = 1 /\ v[2][1][1] = "entity"
  /\ LET p == v[2][1][2] IN
     /\ Resolvable(w, p.entity)
     /\ \A a \in Range(p.args) : /\ a[1] \in Head(Resolvers(w, p.entity)).params
                                 /\ a[2][1] \in {"str", "num", "bool"}

RowsFor(w, p, Rows) ==
  LET field == Head(LookupArgs(Head(Resolvers(w, p.entity))))[1]
      found == SelectSeq(Rows[p.entity], LAMBDA r : \A a \in Range(p.args) : r[a[1]] = a[2])
  IN [i \in DOMAIN found |->
        <<"entity", [entity |-> p.entity, args |-> <<<<field, found[i][field]>>>>,
                     field |-> "", value |-> True]>>]

RECURSIVE ExpandSelector(_, _, _)
ExpandSelector(w, v, Rows) ==
  CASE Selects(w, v)   -> <<"each", RowsFor(w, v[2][1][2], Rows)>>
    [] v[1] = "entity" -> <<"entity", OverArgs(v[2], LAMBDA x : ExpandSelector(w, x, Rows))>>
    [] v[1] = "all"    -> <<"all", ExpandSelector(w, v[2], Rows)>>
    [] v[1] = "list"   -> <<"list", [i \in DOMAIN v[2] |-> ExpandSelector(w, v[2][i], Rows)]>>
    [] OTHER           -> v

ExpandSelectors(wants, w, Rows) ==
  [i \in DOMAIN wants |-> OverArgs(wants[i], LAMBDA x : ExpandSelector(w, x, Rows))]
=============================================================================
