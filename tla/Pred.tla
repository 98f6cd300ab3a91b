-------------------------------- MODULE Pred --------------------------------
(***************************************************************************)
(* Predicates and values (crates/rwmcp/src/pred.rs), which wants, post-    *)
(* conditions and requirements share.                                      *)
(*                                                                         *)
(* A value is a tagged tuple: <<"str", s>>, <<"num", n>>, <<"bool", b>>,   *)
(* <<"list", vs>>, <<"var", name>>, <<"entity", pred>>, <<"each", vs>>,    *)
(* <<"all", v>>, or <<"ref", i>>, the id in the output of node i (the      *)
(* compiler makes references to no other field).  A predicate is a record  *)
(* [entity, args, field, value]; args is a sequence of <<name, value>>.    *)
(* Numbers and Booleans are their printed forms, which is all that is ever *)
(* compared.  Parsing and printing are left out.                           *)
(***************************************************************************)
EXTENDS Naturals, SequencesExt

True == <<"bool", "true">>
False == <<"bool", "false">>

IsExistence(p) == p.field \in {"exists", "resolved"}

AsExists(p) == [p EXCEPT !.field = "exists", !.value = True]

Named(p, k) == {a \in Range(p.args) : a[1] = k}

(* A predicate with F applied to its arguments and its value, or to its    *)
(* arguments alone.                                                        *)
OverArgs(p, F(_)) == [p EXCEPT !.args = [i \in DOMAIN @ |-> <<@[i][1], F(@[i][2])>>]]
OverPred(p, F(_)) == [OverArgs(p, F) EXCEPT !.value = F(@)]

(* The values directly inside a value, and all those of a predicate.       *)
PredVals(p) == {a[2] : a \in Range(p.args)} \cup {p.value}
Inside(v) ==
  CASE v[1] \in {"list", "each"} -> Range(v[2])
    [] v[1] = "all"              -> {v[2]}
    [] v[1] = "entity"           -> PredVals(v[2])
    [] OTHER                     -> {}

RECURSIVE VarsOf(_)
VarsOf(v) == IF v[1] = "var" THEN {v[2]} ELSE UNION {VarsOf(x) : x \in Inside(v)}

PredVars(p) == UNION {VarsOf(v) : v \in PredVals(p)}

(* Bound variables are replaced, unbound ones stay.                        *)
RECURSIVE Subst(_, _)
Subst(v, b) ==
  CASE v[1] = "var"              -> IF v[2] \in DOMAIN b THEN b[v[2]] ELSE v
    [] v[1] \in {"list", "each"} -> <<v[1], [i \in DOMAIN v[2] |-> Subst(v[2][i], b)]>>
    [] v[1] = "all"              -> <<"all", Subst(v[2], b)>>
    [] v[1] = "entity"           -> <<"entity", OverPred(v[2], LAMBDA x : Subst(x, b))>>
    [] OTHER                     -> v

SubstPred(p, b) == OverPred(p, LAMBDA x : Subst(x, b))

(***************************************************************************)
(* Quantifiers: each(...) fans a want out into several, all(...) collects  *)
(* the values of an each into one list.                                    *)
(***************************************************************************)
RECURSIVE EachLens(_)
EachLens(v) ==
  LET In(xs) == FlattenSeq([i \in DOMAIN xs |-> EachLens(xs[i])]) IN
  CASE v[1] = "each"   -> <<Len(v[2])>> \o In(v[2])
    [] v[1] = "list"   -> In(v[2])
    [] v[1] = "entity" -> In([i \in DOMAIN v[2].args |-> v[2].args[i][2]])
                            \o EachLens(v[2].value)
    [] OTHER           -> <<>>

(* Every each replaced by its i-th element; one that is too short gives    *)
(* false.  Nothing inside an all fans out.                                 *)
RECURSIVE Pick(_, _)
Pick(v, i) ==
  CASE v[1] = "each"   -> IF i \in DOMAIN v[2] THEN v[2][i] ELSE False
    [] v[1] = "list"   -> <<"list", [k \in DOMAIN v[2] |-> Pick(v[2][k], i)]>>
    [] v[1] = "entity" -> <<"entity", OverPred(v[2], LAMBDA x : Pick(x, i))>>
    [] OTHER           -> v

(* The expansions of a value along the first each in it; itself if none.   *)
FanOut(v) ==
  IF EachLens(v) = <<>> THEN <<v>> ELSE [i \in 1..Head(EachLens(v)) |-> Pick(v, i)]

Spliced(xs) ==
  FlattenSeq([i \in DOMAIN xs |-> IF xs[i][1] = "list" THEN xs[i][2] ELSE <<xs[i]>>])

(* Every all, innermost first, becomes the list of its expansions, and a   *)
(* list that has it as an element takes those in.                          *)
RECURSIVE CollectAll(_)
CollectAll(v) ==
  CASE v[1] = "all"    -> <<"list", Spliced(FanOut(CollectAll(v[2])))>>
    [] v[1] = "list"   -> <<"list", FlattenSeq([i \in DOMAIN v[2] |->
                              IF v[2][i][1] = "all" THEN CollectAll(v[2][i])[2]
                              ELSE <<CollectAll(v[2][i])>>])>>
    [] v[1] = "each"   -> <<"each", [i \in DOMAIN v[2] |-> CollectAll(v[2][i])]>>
    [] v[1] = "entity" -> <<"entity", OverPred(v[2], CollectAll)>>
    [] OTHER           -> v

(* Mutant: a want fans out first and collects afterwards.                  *)
CollectNothing(p) == p

CollectedPred(p) == OverPred(p, CollectAll)

(* Mutant: lengths that disagree are zipped.                               *)
NeverRagged(p) == FALSE

(* The lengths of the eachs in one want disagree.                          *)
Ragged(p) == Cardinality(Range(EachLens(<<"entity", CollectedPred(p)>>))) > 1

(* The wants a want stands for, when it is not ragged.                     *)
Unroll(p) ==
  LET Picked == FanOut(<<"entity", CollectedPred(p)>>) IN
  [i \in DOMAIN Picked |-> Picked[i][2]]
=============================================================================
