--------------------------- MODULE PlanExecution ---------------------------
(***************************************************************************)
(* What running a plan promises, whatever happens on the way: a write      *)
(* takes effect at most once, and only after everything ordered before it  *)
(* is known to have succeeded; a success is only ever reported of a write  *)
(* that took effect; and the run says "committed" only when every node of  *)
(* the plan is known to have succeeded.                                    *)
(*                                                                         *)
(* Retries, lost answers, late requests, failed lanes, crashes and resumed *)
(* runs do not exist at this level.                                        *)
(***************************************************************************)
CONSTANTS Nodes, Edges, Writes, Keyed

VARIABLES
  effect,   \* how often each keyed write took effect
  applied,  \* the writes that took effect
  known,    \* the nodes whose success has been reported
  verdict   \* "open" while nothing has been concluded

pvars == <<effect, applied, known, verdict>>

Before(n) == {m \in Nodes : <<m, n>> \in Edges}

Start ==
  /\ effect = [n \in Keyed |-> 0]
  /\ applied = {}
  /\ known = {}
  /\ verdict = "open"

(* A keyed write takes effect, once.                                       *)
ApplyOnce(n) ==
  /\ n \in Keyed /\ effect[n] = 0
  /\ Before(n) \subseteq known
  /\ effect' = [effect EXCEPT ![n] = 1]
  /\ applied' = applied \cup {n}
  /\ UNCHANGED <<known, verdict>>

(* A write without a key takes effect, perhaps not for the first time.     *)
ApplyAgain(n) ==
  /\ n \in Writes \ Keyed
  /\ Before(n) \subseteq known
  /\ applied' = applied \cup {n}
  /\ UNCHANGED <<effect, known, verdict>>

(* The success of a node is reported.                                      *)
Report(n) ==
  /\ n \in Nodes
  /\ Before(n) \subseteq known
  /\ n \in Writes => n \in applied
  /\ known' = known \cup {n}
  /\ UNCHANGED <<effect, applied, verdict>>

(* The caller is told how it went, or takes the question up again.         *)
Conclude ==
  /\ verdict' \in {"open", "stopped", "committed"}
  /\ verdict' = "committed" => known = Nodes
  /\ UNCHANGED <<effect, applied, known>>

Step ==
  \/ \E n \in Nodes : ApplyOnce(n) \/ ApplyAgain(n) \/ Report(n)
  \/ Conclude

Spec == Start /\ [][Step]_pvars
=============================================================================
